---- MODULE Spec2Model ----
(***************************************************************************)
(* A model of the neat-physics 2D rigid-body engine (nph::World<2>):       *)
(* body storage, sweep-and-prune broad phase, box-box narrow phase,        *)
(* persistent contact manifolds and the sequential-impulse contact solver. *)
(*                                                                         *)
(* Numbers.  The engine computes in `float`.  The model computes in fixed  *)
(* point: a real r is the integer round(r * SCALE), a product or quotient  *)
(* is rounded to the nearest unit (FMul, FDiv), std::cos / std::sin /      *)
(* std::sqrt are evaluated to that resolution.  Body indices are 0-based   *)
(* as in the code; body i is bodies[i + 1].                                *)
(*                                                                         *)
(* Index width.  uint32_t / int32_t arithmetic on body counts is modelled  *)
(* at the reduced width IndexBits (two's complement for the signed type),  *)
(* so that the capacity limit of addBody is a count the model can reach.   *)
(***************************************************************************)
EXTENDS Integers, Sequences, FiniteSets, TLC

\* ------------------------------------------------------------------ bounds
\* Largest number of addBody calls in one behaviour of the general
\* specification (Spec), hence its largest body count.
MaxBodies == 3
\* Largest number of doStep calls in one behaviour.
MaxSteps == 2
\* Largest number of clear calls in one behaviour.
MaxClears == 1
\* Width, in bits, at which uint32_t / int32_t are modelled.
IndexBits == 4

\* ------------------------------------------------------- fixed-point float
\* One model unit is 1/SCALE.
SCALE == 1000

Abs(n) == IF n < 0 THEN -n ELSE n

Sign(n) == IF n < 0 THEN -1 ELSE 1

\* n / d rounded to the nearest integer, halves away from zero (d > 0).
Rnd(n, d) == IF n >= 0 THEN (n + d \div 2) \div d ELSE -((-n + d \div 2) \div d)

\* float * float
FMul(a, b) == Rnd(a * b, SCALE)

\* The value standing for a float infinity (the result of x / 0.0f).
INF == 1000000 * SCALE

\* float / float
FDiv(a, b) == IF b = 0 THEN Sign(a) * INF ELSE Sign(b) * Rnd(a * SCALE, Abs(b))

FMax(a, b) == IF a < b THEN b ELSE a

\* std::clamp(v, lo, hi)
FClamp(v, lo, hi) == IF v < lo THEN lo ELSE IF hi < v THEN hi ELSE v

\* std::sqrt of a value in [0, 1]
FSqrt(v) == CHOOSE r \in 0..SCALE : r * r <= v * SCALE /\ (r + 1) * (r + 1) > v * SCALE

PI == (355 * SCALE) \div 113

\* Taylor polynomials, used on [-PI/2, PI/2]
SinPoly(a) == LET a2 == FMul(a, a)
                  a3 == FMul(a2, a)
                  a5 == FMul(a3, a2)
              IN  a - Rnd(a3, 6) + Rnd(a5, 120)

CosPoly(a) == LET a2 == FMul(a, a)
                  a4 == FMul(a2, a2)
                  a6 == FMul(a4, a2)
              IN  SCALE - Rnd(a2, 2) + Rnd(a4, 24) - Rnd(a6, 720)

\* The angle brought into [-PI, PI)
WrapAngle(a) == ((a + PI) % (2 * PI)) - PI

\* std::sin
FSin(a) == LET w == WrapAngle(a)
           IN  IF Abs(w) <= PI \div 2 THEN SinPoly(w)
               ELSE Sign(w) * SinPoly(PI - Abs(w))

\* std::cos
FCos(a) == LET w == WrapAngle(a)
           IN  IF Abs(w) <= PI \div 2 THEN CosPoly(w)
               ELSE -CosPoly(PI - Abs(w))

\* ------------------------------------------------------------ Vec2, Mat22
Vec2(x, y) == [x |-> x, y |-> y]

ZeroVec == Vec2(0, 0)

VAdd(a, b) == Vec2(a.x + b.x, a.y + b.y)

VSub(a, b) == Vec2(a.x - b.x, a.y - b.y)

VNeg(a) == Vec2(-a.x, -a.y)

\* scalar * vec
VScale(s, v) == Vec2(FMul(v.x, s), FMul(v.y, s))

VAbs(v) == Vec2(Abs(v.x), Abs(v.y))

\* vec[index]
VAt(v, index) == IF index = 0 THEN v.x ELSE v.y

lengthSquared(v) == FMul(v.x, v.x) + FMul(v.y, v.y)

dot(a, b) == FMul(a.x, b.x) + FMul(a.y, b.y)

\* cross(Vec2, Vec2): z component
cross(a, b) == FMul(a.x, b.y) - FMul(a.y, b.x)

\* cross(Vec2 xy, float z)
crossVS(xy, z) == Vec2(FMul(xy.y, z), -FMul(xy.x, z))

\* cross(float z, Vec2 xy)
crossSV(z, xy) == Vec2(-FMul(xy.y, z), FMul(xy.x, z))

Mat22(c1, c2) == [col1 |-> c1, col2 |-> c2]

getTransposed(m) == Mat22(Vec2(m.col1.x, m.col2.x), Vec2(m.col1.y, m.col2.y))

\* mat[index]: column access
MCol(m, index) == IF index = 0 THEN m.col1 ELSE m.col2

\* mat * vec
MMulV(m, v) == Vec2(FMul(m.col1.x, v.x) + FMul(m.col2.x, v.y),
                    FMul(m.col1.y, v.x) + FMul(m.col2.y, v.y))

\* matA * matB
MMulM(a, b) == Mat22(MMulV(a, b.col1), MMulV(a, b.col2))

MAbs(m) == Mat22(VAbs(m.col1), VAbs(m.col2))

RotationOf(c, s) == Mat22(Vec2(c, s), Vec2(-s, c))

rotationMat(angleRad) == RotationOf(FCos(angleRad), FSin(angleRad))

\* ------------------------------------------------------------ index types
\* std::numeric_limits<uint32_t>::max()
UINT32_MAX == 2 ^ IndexBits - 1

\* static_cast<uint32_t>(n)
ToUint32(n) == n % (2 ^ IndexBits)

\* static_cast<int32_t>(n)
ToInt32(n) == ((n + 2 ^ (IndexBits - 1)) % (2 ^ IndexBits)) - 2 ^ (IndexBits - 1)

\* ------------------------------------------------------------------- Body
getBoxInertia(size, mass) == FDiv(FMul(mass, lengthSquared(size)), 12 * SCALE)

getInvInertia(inertia) == IF inertia = 0 THEN 0 ELSE FDiv(SCALE, inertia)

\* Body<2>::Body(inSize, inMass, inFriction); position, rotation and the
\* velocities are value-initialised.
Body(inSize, inMass, inFriction) ==
    [halfSize        |-> VScale(SCALE \div 2, inSize),
     mass            |-> inMass,
     invMass         |-> IF inMass = 0 THEN 0 ELSE FDiv(SCALE, inMass),
     inertia         |-> getBoxInertia(inSize, inMass),
     invInertia      |-> getInvInertia(getBoxInertia(inSize, inMass)),
     friction        |-> inFriction,
     position        |-> ZeroVec,
     rotation        |-> 0,
     linearVelocity  |-> ZeroVec,
     angularVelocity |-> 0]

isStatic(body) == body.mass = 0

\* ------------------------------------------------------------------- Aabb
getAabb(position, rotation, halfSize) ==
    LET absRotation == MAbs(rotation)
        halfExtents == VAdd(VScale(halfSize.x, absRotation.col1),
                            VScale(halfSize.y, absRotation.col2))
    IN  [min |-> VSub(position, halfExtents), max |-> VAdd(position, halfExtents)]

\* ------------------------------------------------------------ BroadPhase
Endpoint(position, index, start) ==
    [position |-> position, index |-> index, isStart |-> start]

\* Variant: at equal coordinate start events sort before end events.
EndpointLessStartFirst(a, b) ==
    IF a.position # b.position THEN a.position < b.position
    ELSE a.isStart /\ (~b.isStart)

\* Endpoint::operator<  (isStart < other.isStart: false sorts before true)
EndpointLess(a, b) ==
    IF a.position # b.position THEN a.position < b.position
    ELSE (~a.isStart) /\ b.isStart

\* The loop that adds the endpoints of the bodies added since the last
\* update; ei and bound are int32_t.
RECURSIVE AddEndpoints(_, _, _)
AddEndpoints(eps, ei, bound) ==
    IF ei < bound
    THEN AddEndpoints(eps \o << Endpoint(0, ToUint32(ei), TRUE),
                                Endpoint(0, ToUint32(ei), FALSE) >>,
                      ei + 1, bound)
    ELSE eps

\* Insertion of e into the sorted sequence s, after every element that is
\* not greater than e.
RECURSIVE InsertSorted(_, _)
InsertSorted(s, e) ==
    IF s = << >> THEN << e >>
    ELSE IF EndpointLess(e, s[Len(s)])
         THEN InsertSorted(SubSeq(s, 1, Len(s) - 1), e) \o << s[Len(s)] >>
         ELSE s \o << e >>

\* std::sort(mEndpoints.begin(), mEndpoints.end()): on the short ranges of
\* the model the library sorts by insertion, which the code also names as
\* the intended algorithm; elements that compare equal keep their order.
RECURSIVE SortEndpoints(_)
SortEndpoints(s) ==
    IF s = << >> THEN << >>
    ELSE InsertSorted(SortEndpoints(SubSeq(s, 1, Len(s) - 1)), s[Len(s)])

\* Faulty variant of the y test: only one of the two separations is tested.
OverlapOtherAxesOneSided(aabbA, aabbB) ==
    ~(aabbA.max.y < aabbB.min.y)

\* The y test of sweepAxis (dimensions 1 .. D-1, D = 2)
OverlapOtherAxes(aabbA, aabbB) ==
    ~(aabbA.max.y < aabbB.min.y \/ aabbB.max.y < aabbA.min.y)

\* Variant: pairs of two static bodies are reported as well.
RECURSIVE StartPairsWithStatic(_, _, _, _, _)
StartPairsWithStatic(bs, boxes, active, i1, k) ==
    IF k > Len(active) THEN << >>
    ELSE LET i2 == active[k]
             rest == StartPairsWithStatic(bs, boxes, active, i1, k + 1)
         IN  IF ~OverlapOtherAxes(boxes[i1 + 1], boxes[i2 + 1]) THEN rest
             ELSE IF i1 < i2 THEN << << i1, i2 >> >> \o rest
             ELSE << << i2, i1 >> >> \o rest

\* The inner loop of a start event: the pairs reported for body i1 against
\* the active set, in slot order.
RECURSIVE StartPairs(_, _, _, _, _)
StartPairs(bs, boxes, active, i1, k) ==
    IF k > Len(active) THEN << >>
    ELSE LET i2 == active[k]
             rest == StartPairs(bs, boxes, active, i1, k + 1)
         IN  IF isStatic(bs[i1 + 1]) /\ isStatic(bs[i2 + 1]) THEN rest
             ELSE IF ~OverlapOtherAxes(boxes[i1 + 1], boxes[i2 + 1]) THEN rest
             ELSE IF i1 < i2 THEN << << i1, i2 >> >> \o rest
             ELSE << << i2, i1 >> >> \o rest

\* Variant: the end event does not record the new slot of the moved element.
SweepEventNoFixup(bs, boxes, st, endpoint) ==
    IF endpoint.isStart
    THEN [active  |-> Append(st.active, endpoint.index),
          mapping |-> [st.mapping EXCEPT ![endpoint.index + 1] = Len(st.active)],
          pairs   |-> st.pairs \o StartPairs(bs, boxes, st.active, endpoint.index, 1),
          ok      |-> st.ok]
    ELSE IF st.active = << >>
         THEN [st EXCEPT !.ok = FALSE]
         ELSE LET idx  == st.mapping[endpoint.index + 1]
                  last == st.active[Len(st.active)]
                  moved == IF idx + 1 <= Len(st.active)
                           THEN [st.active EXCEPT ![idx + 1] = last]
                           ELSE st.active
              IN  [active  |-> SubSeq(moved, 1, Len(moved) - 1),
                   mapping |-> st.mapping,
                   pairs   |-> st.pairs,
                   ok      |-> st.ok /\ idx + 1 <= Len(st.active)]

\* One endpoint of the sweep.  st = [active, mapping, pairs, ok]: the active
\* set, mActiveMapping (0-based slot of body i at mapping[i + 1]), the pairs
\* handed to the callback so far, and ok = no end event met an empty active
\* set.
SweepEvent(bs, boxes, st, endpoint) ==
    IF endpoint.isStart
    THEN [active  |-> Append(st.active, endpoint.index),
          mapping |-> [st.mapping EXCEPT ![endpoint.index + 1] = Len(st.active)],
          pairs   |-> st.pairs \o StartPairs(bs, boxes, st.active, endpoint.index, 1),
          ok      |-> st.ok]
    ELSE IF st.active = << >>
         THEN [st EXCEPT !.ok = FALSE]
         ELSE LET idx  == st.mapping[endpoint.index + 1]
                  last == st.active[Len(st.active)]
                  moved == IF idx + 1 <= Len(st.active)
                           THEN [st.active EXCEPT ![idx + 1] = last]
                           ELSE st.active
              IN  [active  |-> SubSeq(moved, 1, Len(moved) - 1),
                   mapping |-> [st.mapping EXCEPT ![last + 1] = idx],
                   pairs   |-> st.pairs,
                   ok      |-> st.ok /\ idx + 1 <= Len(st.active)]

\* BroadPhase::sweepAxis
RECURSIVE sweepAxis(_, _, _, _, _)
sweepAxis(bs, boxes, eps, k, st) ==
    IF k > Len(eps) THEN st
    ELSE sweepAxis(bs, boxes, eps, k + 1, SweepEvent(bs, boxes, st, eps[k]))

\* mActiveMapping.resize(n): kept values, new slots value-initialised
ResizeMapping(mapping, n) ==
    [i \in 1..n |-> IF i <= Len(mapping) THEN mapping[i] ELSE 0]

\* BroadPhase::update up to the sweep: the new mAabbs, mEndpoints.
UpdateAabbs(bs) ==
    [i \in 1..Len(bs) |->
        getAabb(bs[i].position, rotationMat(bs[i].rotation), bs[i].halfSize)]

UpdateEndpoints(eps, boxes, n) ==
    LET kept  == IF Len(eps) > n * 2 THEN << >> ELSE eps
        added == AddEndpoints(kept, ToInt32(Len(kept) \div 2), ToInt32(n))
        moved == [i \in 1..Len(added) |->
                    [added[i] EXCEPT !.position =
                        IF added[i].isStart
                        THEN boxes[added[i].index + 1].min.x
                        ELSE boxes[added[i].index + 1].max.x]]
    IN  SortEndpoints(moved)

\* ----------------------------------------------------------------- Plane
\* Plane(inNormal, inOrigin, inOffset)
Plane(inNormal, inOrigin, inOffset) ==
    [normal |-> inNormal, offset |-> dot(inNormal, inOrigin) + inOffset]

\* Plane::getDistance
getDistance(plane, point) == dot(plane.normal, point) - plane.offset

\* ------------------------------------------------------------ NarrowPhase
GeometryFeature(geometry, edge) == [geometry |-> geometry, edge |-> edge]

\* CollisionPoint<D>::MAX_POINTS, D = 2
MAX_POINTS == 2

\* GeometryFeature::operator<
FeatureLess(a, b) ==
    IF a.geometry # b.geometry THEN a.geometry < b.geometry ELSE a.edge < b.edge

ClippedPoint(position, featurePair) ==
    [position |-> position, featurePair |-> featurePair]

\* Variant: the new point copies the feature pair of the source point in
\* the negative half-space and overrides its other feature.
clipEdgeByPlaneFromNegative(source, clipPlane, clipBody, clipAxisInd) ==
    LET d0 == getDistance(clipPlane, source[1].position)
        d1 == getDistance(clipPlane, source[2].position)
        kept == (IF d0 <= 0 THEN << source[1] >> ELSE << >>) \o
                (IF d1 <= 0 THEN << source[2] >> ELSE << >>)
        pi == IF d0 <= 0 THEN 1 ELSE 0
        lerpFactor == FDiv(d0, d0 - d1)
        newPoint ==
            ClippedPoint(
                VAdd(source[1].position,
                     VScale(lerpFactor, VSub(source[2].position, source[1].position))),
                [source[(1 - pi) + 1].featurePair EXCEPT
                    ![pi + 1] = GeometryFeature(clipBody, clipAxisInd)])
    IN  IF Len(kept) = 1 /\ d0 * d1 < 0 THEN kept \o << newPoint >> ELSE kept

\* clipEdgeByPlane: the points written to target, in order; the call
\* returns true iff two points were written.
clipEdgeByPlane(source, clipPlane, clipBody, clipAxisInd) ==
    LET d0 == getDistance(clipPlane, source[1].position)
        d1 == getDistance(clipPlane, source[2].position)
        kept == (IF d0 <= 0 THEN << source[1] >> ELSE << >>) \o
                (IF d1 <= 0 THEN << source[2] >> ELSE << >>)
        \* index of the feature to override, and of the source point whose
        \* feature pair is copied
        pi == IF d0 <= 0 THEN 1 ELSE 0
        lerpFactor == FDiv(d0, d0 - d1)
        newPoint ==
            ClippedPoint(
                VAdd(source[1].position,
                     VScale(lerpFactor, VSub(source[2].position, source[1].position))),
                [source[pi + 1].featurePair EXCEPT
                    ![pi + 1] = GeometryFeature(clipBody, clipAxisInd)])
    IN  \* distances[0] * distances[1] < 0.0f: the sign of the exact product
        IF Len(kept) = 1 /\ d0 * d1 < 0 THEN kept \o << newPoint >> ELSE kept

\* VERTEX_SIGNS[pointIndex]
VERTEX_SIGNS(pointIndex) ==
    CASE pointIndex = 0 -> Vec2(1, 1)
      [] pointIndex = 1 -> Vec2(-1, 1)
      [] pointIndex = 2 -> Vec2(-1, -1)
      [] pointIndex = 3 -> Vec2(1, -1)

\* Step 1 of getBoxBoxCollision: the penetrations of box bi on its two axes
BoxPenetrations(invRotations, absRelRotations, halfSizes, centersVec, bi) ==
    VSub(halfSizes[bi + 1],
         VSub(VAbs(MMulV(invRotations[bi + 1], centersVec)),
              MMulV(absRelRotations[(1 - bi) + 1], halfSizes[(1 - bi) + 1])))

\* The four penetrations in the order of the loops of step 1:
\* (box 0, axis 0), (0, 1), (1, 0), (1, 1)
PenetrationList(penetrations0, penetrations1) ==
    << penetrations0.x, penetrations0.y, penetrations1.x, penetrations1.y >>

RelRotations(abRelRotation) ==
    << MAbs(abRelRotation), MAbs(getTransposed(abRelRotation)) >>

AxisPenetrations(invRotations, absRelRotations, halfSizes, centersVec) ==
    PenetrationList(
        BoxPenetrations(invRotations, absRelRotations, halfSizes, centersVec, 0),
        BoxPenetrations(invRotations, absRelRotations, halfSizes, centersVec, 1))

\* Variant: a later axis replaces an earlier one of equal penetration.
MinAxisLastWins(pens) ==
    CHOOSE k \in 0..3 :
        /\ \A j \in 0..3 : pens[k + 1] <= pens[j + 1]
        /\ \A j \in (k + 1)..3 : pens[j + 1] > pens[k + 1]

\* The first index (0..3) of the minimum of the four penetrations: the
\* strict comparison keeps the earlier axis on a tie.
MinAxis(pens) ==
    CHOOSE k \in 0..3 :
        /\ \A j \in 0..3 : pens[k + 1] <= pens[j + 1]
        /\ \A j \in 0..(k - 1) : pens[j + 1] > pens[k + 1]

CollisionPoint(inPosition, inNormal, inPenetration, inFeaturePair, inClipBoxIndex, inLocalPoints, inLocalContactNormal) ==
    [position           |-> inPosition,
     normal             |-> inNormal,
     penetration        |-> inPenetration,
     featurePair        |-> inFeaturePair,
     clipBoxIndex       |-> inClipBoxIndex,
     localPoints        |-> inLocalPoints,
     localContactNormal |-> inLocalContactNormal]

\* Variant: the feature pair as the clipping left it.
OrderedFeaturePairAsClipped(featurePair) == featurePair

\* The feature pair with the smaller feature first
OrderedFeaturePair(featurePair) ==
    IF FeatureLess(featurePair[2], featurePair[1])
    THEN << featurePair[2], featurePair[1] >>
    ELSE featurePair

\* Step 4, the body of the loop for one clipped point: the collision point
\* made of it, or nothing if the point is outside the clip plane.
createCollisionPoint(positions, invRotations, clipBoxInd, clipNormal, minPenetrationDir, point, penetration) ==
    LET resultPosition == VAdd(point.position, VScale(penetration, clipNormal))
        localClip == MMulV(invRotations[clipBoxInd + 1],
                           VSub(resultPosition, positions[clipBoxInd + 1]))
        localIncident == MMulV(invRotations[(1 - clipBoxInd) + 1],
                               VSub(point.position, positions[(1 - clipBoxInd) + 1]))
    IN  IF penetration < 0 THEN << >>
        ELSE << CollisionPoint(
                  resultPosition,
                  minPenetrationDir,
                  penetration,
                  OrderedFeaturePair(point.featurePair),
                  clipBoxInd,
                  IF clipBoxInd = 0 THEN << localClip, localIncident >>
                                    ELSE << localIncident, localClip >>,
                  MMulV(invRotations[clipBoxInd + 1], clipNormal)) >>

\* Step 4 of getBoxBoxCollision: the collision points of the clipped edge
createCollisionPoints(positions, invRotations, clipBoxInd, clipNormal, minPenetrationDir, clipPlane, edge) ==
    createCollisionPoint(positions, invRotations, clipBoxInd, clipNormal,
                         minPenetrationDir, edge[1],
                         -getDistance(clipPlane, edge[1].position))
    \o
    createCollisionPoint(positions, invRotations, clipBoxInd, clipNormal,
                         minPenetrationDir, edge[2],
                         -getDistance(clipPlane, edge[2].position))

\* Step 3, after the two clips: 0 points unless both clips kept two points
clippedOrNone(positions, invRotations, halfSizes, clipBoxInd, clipAxisInd, clipNormal, minPenetrationDir, temp, edge) ==
    IF Len(temp) # 2 \/ Len(edge) # 2 THEN << >>
    ELSE createCollisionPoints(
             positions, invRotations, clipBoxInd, clipNormal, minPenetrationDir,
             Plane(clipNormal, positions[clipBoxInd + 1],
                   VAt(halfSizes[clipBoxInd + 1], clipAxisInd)),
             edge)

\* The second clip of step 3; it is not made when the first clip failed.
clipSecond(positions, invRotations, halfSizes, clipBoxInd, clipAxisInd, clipNormal, minPenetrationDir, sideClipPlane2, sideEdge2, temp) ==
    clippedOrNone(positions, invRotations, halfSizes, clipBoxInd, clipAxisInd,
                  clipNormal, minPenetrationDir, temp,
                  IF Len(temp) # 2 THEN << >>
                  ELSE clipEdgeByPlane(temp, sideClipPlane2, clipBoxInd, sideEdge2))

\* Step 3 of getBoxBoxCollision: clip the incident edge over the side edges
\* of the clip box
clipIncidentEdge(positions, mats, invRotations, halfSizes, clipBoxInd, clipAxisInd, clipNormal, minPenetrationDir, sideNormal1, edge) ==
    clipSecond(positions, invRotations, halfSizes, clipBoxInd, clipAxisInd,
               clipNormal, minPenetrationDir,
               Plane(VNeg(sideNormal1), positions[clipBoxInd + 1],
                     VAt(halfSizes[clipBoxInd + 1], 1 - clipAxisInd)),
               ((2 - clipAxisInd) + 2) % 4,
               clipEdgeByPlane(edge,
                               Plane(sideNormal1, positions[clipBoxInd + 1],
                                     VAt(halfSizes[clipBoxInd + 1], 1 - clipAxisInd)),
                               clipBoxInd, 2 - clipAxisInd))

\* Step 2: the incident edge chosen from the clip normal in the local space
\* of the incident box
IncidentEdge(incidentDir) ==
    IF Abs(incidentDir.x) > Abs(incidentDir.y)
    THEN (IF incidentDir.x > 0 THEN 3 ELSE 1)
    ELSE (IF incidentDir.y > 0 THEN 0 ELSE 2)

\* Step 2: the end point pointIndex of the incident edge
EdgePoint(positions, mats, halfSizes, incidentBoxInd, pointIndex) ==
    ClippedPoint(
        VAdd(positions[incidentBoxInd + 1],
             MMulV(mats[incidentBoxInd + 1],
                   Vec2(VERTEX_SIGNS(pointIndex).x * halfSizes[incidentBoxInd + 1].x,
                        VERTEX_SIGNS(pointIndex).y * halfSizes[incidentBoxInd + 1].y))),
        << GeometryFeature(incidentBoxInd, (pointIndex + 3) % 4),
           GeometryFeature(incidentBoxInd, pointIndex % 4) >>)

IncidentEdgePoints(positions, mats, halfSizes, incidentBoxInd, incidentEdge) ==
    << EdgePoint(positions, mats, halfSizes, incidentBoxInd, (incidentEdge + 0) % 4),
       EdgePoint(positions, mats, halfSizes, incidentBoxInd, (incidentEdge + 1) % 4) >>

\* Step 2 of getBoxBoxCollision: find the incident edge
findIncidentEdge(positions, mats, invRotations, halfSizes, clipBoxInd, clipAxisInd, clipNormal, minPenetrationDir) ==
    clipIncidentEdge(
        positions, mats, invRotations, halfSizes, clipBoxInd, clipAxisInd,
        clipNormal, minPenetrationDir,
        MCol(mats[clipBoxInd + 1], 1 - clipAxisInd),
        IncidentEdgePoints(
            positions, mats, halfSizes, 1 - clipBoxInd,
            IncidentEdge(VNeg(MMulV(invRotations[(1 - clipBoxInd) + 1], clipNormal)))))

\* Variant: the direction is left as the axis of the clip box.
MinPenetrationDirAsAxis(dir, centersVec) == dir

\* The end of step 1: the direction of the minimum penetration, from a to b
MinPenetrationDir(dir, centersVec) ==
    IF dot(dir, centersVec) < 0 THEN VNeg(dir) ELSE dir

\* The clip normal: inverted if the clipping box is box B
withMinPenetrationDir(positions, mats, invRotations, halfSizes, clipBoxInd, clipAxisInd, minPenetrationDir) ==
    findIncidentEdge(positions, mats, invRotations, halfSizes, clipBoxInd,
                     clipAxisInd,
                     IF clipBoxInd = 0 THEN minPenetrationDir
                                       ELSE VNeg(minPenetrationDir),
                     minPenetrationDir)

\* Step 1 of getBoxBoxCollision: 0 points on a separating axis, else the
\* clip box and axis of the minimum penetration
findMinPenetration(positions, mats, invRotations, halfSizes, centersVec, pens) ==
    IF \E k \in 1..4 : pens[k] < 0 THEN << >>
    ELSE withMinPenetrationDir(
             positions, mats, invRotations, halfSizes,
             MinAxis(pens) \div 2, MinAxis(pens) % 2,
             MinPenetrationDir(MCol(mats[(MinAxis(pens) \div 2) + 1],
                                    MinAxis(pens) % 2),
                               centersVec))

withInvRotations(positions, mats, invRotations, halfSizes) ==
    findMinPenetration(
        positions, mats, invRotations, halfSizes,
        VSub(positions[2], positions[1]),
        AxisPenetrations(invRotations,
                         RelRotations(MMulM(invRotations[1], mats[2])),
                         halfSizes,
                         VSub(positions[2], positions[1])))

withMats(positions, mats, halfSizes) ==
    withInvRotations(positions, mats,
                     << getTransposed(mats[1]), getTransposed(mats[2]) >>,
                     halfSizes)

\* getBoxBoxCollision(positions, rotations, halfSizes, result): the
\* sequence result[0 .. count-1]; rotations are the angles of the boxes.
getBoxBoxCollision(positions, rotations, halfSizes) ==
    withMats(positions,
             << rotationMat(rotations[1]), rotationMat(rotations[2]) >>,
             halfSizes)

\* ------------------------------------------------------------ ContactPoint
\* static constexpr float POSITION_CORRECTION_FACTOR = 0.2f
POSITION_CORRECTION_FACTOR == SCALE \div 5

\* static constexpr float ALLOWED_PENETRATION = 0.001f
ALLOWED_PENETRATION == SCALE \div 1000

\* ContactPoint(inPoint): both accumulated impulses zero; the other members
\* are written by prepareToSolve before they are read.
ContactPoint(inPoint) ==
    [point          |-> inPoint,
     tangent        |-> ZeroVec,
     offsetA        |-> ZeroVec,
     offsetB        |-> ZeroVec,
     normalMass     |-> 0,
     tangentMass    |-> 0,
     normalImpulse  |-> 0,
     tangentImpulse |-> 0]

\* Faulty variant of updateFrom: the accumulated impulses are not taken over.
updateFromNothing(contact, other) == contact

\* ContactPoint::updateFrom
updateFrom(contact, other) ==
    [contact EXCEPT !.normalImpulse = other.normalImpulse,
                    !.tangentImpulse = other.tangentImpulse]

\* nph::applyImpulse(body, localPoint, impulse)
applyImpulse(body, localPoint, impulse) ==
    [body EXCEPT
        !.linearVelocity = VAdd(@, VScale(body.invMass, impulse)),
        !.angularVelocity = @ + FMul(body.invInertia, cross(localPoint, impulse))]

\* ContactPoint::applyImpulse(bodyA, bodyB, impulse): the two bodies after it
applyContactImpulse(contact, bodyA, bodyB, impulse) ==
    [a |-> applyImpulse(bodyA, contact.offsetA, VNeg(impulse)),
     b |-> applyImpulse(bodyB, contact.offsetB, impulse)]

getEffectiveMass(bodyA, bodyB, armA, armB, direction) ==
    LET crossA == cross(armA, direction)
        crossB == cross(armB, direction)
        invResult ==
            bodyA.invMass + bodyB.invMass +
            dot(VAdd(crossSV(FMul(bodyA.invInertia, crossA), armA),
                     crossSV(FMul(bodyB.invInertia, crossB), armB)),
                direction)
    IN  FDiv(SCALE, invResult)

getVelocityAtContact(contact, bodyA, bodyB) ==
    VSub(VSub(VAdd(bodyB.linearVelocity, crossSV(bodyB.angularVelocity, contact.offsetB)),
              bodyA.linearVelocity),
         crossSV(bodyA.angularVelocity, contact.offsetA))

\* ContactPoint::prepareToSolve: [c, a, b] = the contact and the two bodies
\* after the call.
prepareContact(contact, bodyA, bodyB) ==
    LET offsetA == VSub(contact.point.position, bodyA.position)
        offsetB == VSub(contact.point.position, bodyB.position)
        tangent == crossVS(contact.point.normal, SCALE)
        c1 == [contact EXCEPT
                  !.offsetA = offsetA,
                  !.offsetB = offsetB,
                  !.normalMass = getEffectiveMass(bodyA, bodyB, offsetA, offsetB,
                                                  contact.point.normal),
                  !.tangent = tangent,
                  !.tangentMass = getEffectiveMass(bodyA, bodyB, offsetA, offsetB,
                                                   tangent)]
        \* the warm starting impulse
        moved == applyContactImpulse(c1, bodyA, bodyB,
                     VAdd(VScale(c1.normalImpulse, c1.point.normal),
                          VScale(c1.tangentImpulse, c1.tangent)))
    IN  [c |-> c1, a |-> moved.a, b |-> moved.b]

\* Faulty variant of the normal half: the accumulated impulse is not clamped.
solveNormalUnclamped(contact, bodyA, bodyB) ==
    LET impulse == -FMul(contact.normalMass,
                         dot(getVelocityAtContact(contact, bodyA, bodyB),
                             contact.point.normal))
        c1 == [contact EXCEPT !.normalImpulse = @ + impulse]
        moved == applyContactImpulse(c1, bodyA, bodyB,
                     VScale(impulse, contact.point.normal))
    IN  [c |-> c1, a |-> moved.a, b |-> moved.b]

\* The normal half of ContactPoint::solveVelocities
solveNormal(contact, bodyA, bodyB) ==
    LET impulse == -FMul(contact.normalMass,
                         dot(getVelocityAtContact(contact, bodyA, bodyB),
                             contact.point.normal))
        oldImpulse == contact.normalImpulse
        newImpulse == FMax(0, oldImpulse + impulse)
        c1 == [contact EXCEPT !.normalImpulse = newImpulse]
        moved == applyContactImpulse(c1, bodyA, bodyB,
                     VScale(newImpulse - oldImpulse, contact.point.normal))
    IN  [c |-> c1, a |-> moved.a, b |-> moved.b]

\* Faulty variant of the friction half: the accumulated impulse is not
\* clamped to the friction cone.
solveFrictionUnclamped(contact, bodyA, bodyB, friction) ==
    LET impulse == -FMul(contact.tangentMass,
                         dot(getVelocityAtContact(contact, bodyA, bodyB),
                             contact.tangent))
        c1 == [contact EXCEPT !.tangentImpulse = @ + impulse]
        moved == applyContactImpulse(c1, bodyA, bodyB,
                     VScale(impulse, contact.tangent))
    IN  [c |-> c1, a |-> moved.a, b |-> moved.b]

\* The dry friction half of ContactPoint::solveVelocities
solveFriction(contact, bodyA, bodyB, friction) ==
    LET maxFriction == FMul(friction, contact.normalImpulse)
        impulse == -FMul(contact.tangentMass,
                         dot(getVelocityAtContact(contact, bodyA, bodyB),
                             contact.tangent))
        oldImpulse == contact.tangentImpulse
        newImpulse == FClamp(oldImpulse + impulse, -maxFriction, maxFriction)
        c1 == [contact EXCEPT !.tangentImpulse = newImpulse]
        moved == applyContactImpulse(c1, bodyA, bodyB,
                     VScale(newImpulse - oldImpulse, contact.tangent))
    IN  [c |-> c1, a |-> moved.a, b |-> moved.b]

\* ContactPoint::solveVelocities
solveContactVelocities(contact, bodyA, bodyB, friction) ==
    LET n == solveNormal(contact, bodyA, bodyB)
    IN  solveFriction(n.c, n.a, n.b, friction)

\* The results of ContactPoint::getTransformedContact from the plane point,
\* the clipped point and the normal of the clip box
TransformedContact(ind1, planePoint, clippedPoint, normal) ==
    [normal       |-> IF ind1 = 0 THEN normal ELSE VNeg(normal),
     clippedPoint |-> clippedPoint,
     penetration  |-> dot(VSub(planePoint, clippedPoint), normal)]

TransformContact(point, positions, rotations, ind1, ind2) ==
    TransformedContact(
        ind1,
        VAdd(positions[ind1 + 1], MMulV(rotations[ind1 + 1], point.localPoints[ind1 + 1])),
        VAdd(positions[ind2 + 1], MMulV(rotations[ind2 + 1], point.localPoints[ind2 + 1])),
        MMulV(rotations[ind1 + 1], point.localContactNormal))

\* ContactPoint::getTransformedContact
getTransformedContact(contact, bodyA, bodyB) ==
    TransformContact(contact.point,
                     << bodyA.position, bodyB.position >>,
                     << rotationMat(bodyA.rotation), rotationMat(bodyB.rotation) >>,
                     contact.point.clipBoxIndex,
                     1 - contact.point.clipBoxIndex)

\* The end of ContactPoint::solvePositions: the positions and rotations
\* integrated directly
correctPositions(bodyA, bodyB, offsetA, offsetB, penetrationImpulse) ==
    [a |-> [bodyA EXCEPT
              !.position = VSub(@, VScale(bodyA.invMass, penetrationImpulse)),
              !.rotation = @ - FMul(bodyA.invInertia,
                                    cross(offsetA, penetrationImpulse))],
     b |-> [bodyB EXCEPT
              !.position = VAdd(@, VScale(bodyB.invMass, penetrationImpulse)),
              !.rotation = @ + FMul(bodyB.invInertia,
                                    cross(offsetB, penetrationImpulse))]]

PenetrationImpulse(effectiveMass, biasFactor, normal) ==
    VScale(FMax(0, FMul(effectiveMass, biasFactor)), normal)

solveTransformed(bodyA, bodyB, normal, planePoint, penetration) ==
    correctPositions(
        bodyA, bodyB,
        VSub(planePoint, bodyA.position),
        VSub(planePoint, bodyB.position),
        PenetrationImpulse(
            getEffectiveMass(bodyA, bodyB,
                             VSub(planePoint, bodyA.position),
                             VSub(planePoint, bodyB.position),
                             normal),
            FMax(0, FMul(POSITION_CORRECTION_FACTOR,
                         penetration - ALLOWED_PENETRATION)),
            normal))

withTransformed(bodyA, bodyB, t) ==
    solveTransformed(bodyA, bodyB, t.normal, t.clippedPoint, t.penetration)

\* ContactPoint::solvePositions: the two bodies after the call
solveContactPositions(contact, bodyA, bodyB) ==
    withTransformed(bodyA, bodyB, getTransformedContact(contact, bodyA, bodyB))

\* --------------------------------------------------------- ContactManifold
\* Addresses are counted in units of sizeof(Body).  The body a handle
\* refers to, as a 0-based index into the storage that starts at data.
BodyIndex(ptr, data) == ptr - data

\* ContactManifold(bodyA, bodyB, manifold); mContacts holds the
\* mContactCount contacts in use.
ContactManifold(ptrA, ptrB, bodyA, bodyB, points) ==
    [bodyA    |-> ptrA,
     bodyB    |-> ptrB,
     contacts |-> [i \in 1..Len(points) |-> ContactPoint(points[i])],
     obsolete |-> FALSE,
     friction |-> FSqrt(FMul(bodyA.friction, bodyB.friction))]

\* The first old contact with the feature pair fp, 0 if there is none
FirstMatch(oldContacts, fp) ==
    IF \E k \in 1..Len(oldContacts) : oldContacts[k].point.featurePair = fp
    THEN CHOOSE k \in 1..Len(oldContacts) :
            /\ oldContacts[k].point.featurePair = fp
            /\ \A j \in 1..(k - 1) : oldContacts[j].point.featurePair # fp
    ELSE 0

\* Variant: update builds the manifold anew and does not keep mFriction.
updateManifoldFrictionLost(manifold, newPoints) ==
    LET oldContacts == manifold.contacts
        contact(i) ==
            LET k == FirstMatch(oldContacts, newPoints[i].featurePair)
            IN  IF k = 0 THEN ContactPoint(newPoints[i])
                ELSE updateFrom(ContactPoint(newPoints[i]), oldContacts[k])
    IN  [manifold EXCEPT
            !.contacts = [i \in 1..Len(newPoints) |-> contact(i)],
            !.obsolete = FALSE,
            !.friction = 0]

\* ContactManifold::update
updateManifold(manifold, newPoints) ==
    LET oldContacts == manifold.contacts
        contact(i) ==
            LET k == FirstMatch(oldContacts, newPoints[i].featurePair)
            IN  IF k = 0 THEN ContactPoint(newPoints[i])
                ELSE updateFrom(ContactPoint(newPoints[i]), oldContacts[k])
    IN  [manifold EXCEPT
            !.contacts = [i \in 1..Len(newPoints) |-> contact(i)],
            !.obsolete = FALSE]

\* The per-contact loops of ContactManifold::prepareToSolve,
\* solveVelocities and solvePositions.  st = [m, bs]: the manifold and the
\* body array; k = the contact to handle next.
RECURSIVE prepareManifold(_, _, _)
prepareManifold(st, data, k) ==
    IF k > Len(st.m.contacts) THEN st
    ELSE LET ia == BodyIndex(st.m.bodyA, data) + 1
             ib == BodyIndex(st.m.bodyB, data) + 1
             r == prepareContact(st.m.contacts[k], st.bs[ia], st.bs[ib])
         IN  prepareManifold(
                [m  |-> [st.m EXCEPT !.contacts[k] = r.c],
                 bs |-> [st.bs EXCEPT ![ia] = r.a, ![ib] = r.b]],
                data, k + 1)

RECURSIVE solveManifoldVelocities(_, _, _)
solveManifoldVelocities(st, data, k) ==
    IF k > Len(st.m.contacts) THEN st
    ELSE LET ia == BodyIndex(st.m.bodyA, data) + 1
             ib == BodyIndex(st.m.bodyB, data) + 1
             r == solveContactVelocities(st.m.contacts[k], st.bs[ia], st.bs[ib],
                                         st.m.friction)
         IN  solveManifoldVelocities(
                [m  |-> [st.m EXCEPT !.contacts[k] = r.c],
                 bs |-> [st.bs EXCEPT ![ia] = r.a, ![ib] = r.b]],
                data, k + 1)

\* Variant: the position solve also removes the velocity of the two bodies
\* along the way.
RECURSIVE solveManifoldPositionsAndVelocities(_, _, _)
solveManifoldPositionsAndVelocities(st, data, k) ==
    IF k > Len(st.m.contacts) THEN st
    ELSE LET ia == BodyIndex(st.m.bodyA, data) + 1
             ib == BodyIndex(st.m.bodyB, data) + 1
             r == solveContactPositions(st.m.contacts[k], st.bs[ia], st.bs[ib])
         IN  solveManifoldPositionsAndVelocities(
                [m  |-> st.m,
                 bs |-> [st.bs EXCEPT
                            ![ia] = [r.a EXCEPT !.linearVelocity = ZeroVec],
                            ![ib] = [r.b EXCEPT !.linearVelocity = ZeroVec]]],
                data, k + 1)

RECURSIVE solveManifoldPositions(_, _, _)
solveManifoldPositions(st, data, k) ==
    IF k > Len(st.m.contacts) THEN st
    ELSE LET ia == BodyIndex(st.m.bodyA, data) + 1
             ib == BodyIndex(st.m.bodyB, data) + 1
             r == solveContactPositions(st.m.contacts[k], st.bs[ia], st.bs[ib])
         IN  solveManifoldPositions(
                [m  |-> st.m,
                 bs |-> [st.bs EXCEPT ![ia] = r.a, ![ib] = r.b]],
                data, k + 1)

\* Faulty variant of onBodiesReallocation: only the first handle is moved.
rebaseManifoldFirstOnly(manifold, memoryOffset) ==
    [manifold EXCEPT !.bodyA = @ + memoryOffset]

\* ContactManifold::onBodiesReallocation
rebaseManifold(manifold, memoryOffset) ==
    [manifold EXCEPT !.bodyA = @ + memoryOffset, !.bodyB = @ + memoryOffset]

\* ----------------------------------------------------------- ContactSolver
\* A manifold array entry is [first, second]: first is the iterator into
\* mContactPairs, identified by the key of the map node it points to;
\* second is the manifold.  mContactPairs is a function key -> index.

\* (bodyIndA << 32) | bodyIndB, at the modelled index width
PairKey(bodyIndA, bodyIndB) == bodyIndA * 2 ^ IndexBits + bodyIndB

\* One pass over all manifolds of prepareToSolve / solveVelocities /
\* solvePositions.  st = [ms, bs]: the manifold array and the body array.
RECURSIVE prepareAll(_, _, _)
prepareAll(st, data, k) ==
    IF k > Len(st.ms) THEN st
    ELSE LET r == prepareManifold([m |-> st.ms[k].second, bs |-> st.bs], data, 1)
         IN  prepareAll([ms |-> [st.ms EXCEPT ![k].second = r.m], bs |-> r.bs],
                        data, k + 1)

\* Variant: the pass ends after the first manifold of the array.
RECURSIVE solveVelocitiesPassFirstOnly(_, _, _)
solveVelocitiesPassFirstOnly(st, data, k) ==
    IF k > Len(st.ms) \/ k > 1 THEN st
    ELSE LET r == solveManifoldVelocities([m |-> st.ms[k].second, bs |-> st.bs], data, 1)
         IN  solveVelocitiesPassFirstOnly([ms |-> [st.ms EXCEPT ![k].second = r.m], bs |-> r.bs],
                                          data, k + 1)

RECURSIVE solveVelocitiesPass(_, _, _)
solveVelocitiesPass(st, data, k) ==
    IF k > Len(st.ms) THEN st
    ELSE LET r == solveManifoldVelocities([m |-> st.ms[k].second, bs |-> st.bs], data, 1)
         IN  solveVelocitiesPass([ms |-> [st.ms EXCEPT ![k].second = r.m], bs |-> r.bs],
                                 data, k + 1)

RECURSIVE solvePositionsPass(_, _, _)
solvePositionsPass(st, data, k) ==
    IF k > Len(st.ms) THEN st
    ELSE LET r == solveManifoldPositions([m |-> st.ms[k].second, bs |-> st.bs], data, 1)
         IN  solvePositionsPass([ms |-> st.ms, bs |-> r.bs], data, k + 1)

\* Faulty variant of prepareManifoldsUpdate: no manifold is marked.
markNoneObsolete(ms) == ms

\* ContactSolver::prepareManifoldsUpdate
markAllObsolete(ms) == [i \in 1..Len(ms) |-> [ms[i] EXCEPT !.second.obsolete = TRUE]]

\* ContactSolver::onCollision: [ms, pairs] after the call
solverOnCollision(ms, pairs, bs, data, bodyIndA, bodyIndB, points) ==
    LET key == PairKey(bodyIndA, bodyIndB)
    IN  IF key \in DOMAIN pairs
        THEN [ms    |-> [ms EXCEPT ![pairs[key] + 1].second = updateManifold(@, points)],
              pairs |-> pairs]
        ELSE LET index == ToUint32(Len(ms))
             IN  [ms    |-> Append(ms,
                           [first  |-> key,
                            second |-> ContactManifold(data + bodyIndA, data + bodyIndB,
                                                       bs[bodyIndA + 1], bs[bodyIndB + 1],
                                                       points)]),
                  pairs |-> [k \in DOMAIN pairs \cup {key} |->
                                IF k = key THEN index ELSE pairs[k]]]

\* The map without the node of key
EraseKey(pairs, key) == [k \in DOMAIN pairs \ {key} |-> pairs[k]]

\* Faulty variant of finishManifoldsUpdate: the map entry of the manifold
\* moved into the freed slot keeps its old index.
RECURSIVE finishManifoldsUpdateNoRewire(_, _, _)
finishManifoldsUpdateNoRewire(ms, pairs, mi) ==
    IF mi = Len(ms) THEN [ms |-> ms, pairs |-> pairs]
    ELSE IF ms[mi + 1].second.obsolete
         THEN LET erased == EraseKey(pairs, ms[mi + 1].first)
                  popped == SubSeq(ms, 1, Len(ms) - 1)
              IN  IF mi # Len(ms) - 1
                  THEN finishManifoldsUpdateNoRewire(
                           [popped EXCEPT ![mi + 1] = ms[Len(ms)]], erased, mi)
                  ELSE finishManifoldsUpdateNoRewire(popped, erased, mi)
         ELSE finishManifoldsUpdateNoRewire(ms, pairs, mi + 1)

\* ContactSolver::finishManifoldsUpdate, from index mi on
RECURSIVE finishManifoldsUpdate(_, _, _)
finishManifoldsUpdate(ms, pairs, mi) ==
    IF mi = Len(ms) THEN [ms |-> ms, pairs |-> pairs]
    ELSE IF ms[mi + 1].second.obsolete
         THEN LET erased == EraseKey(pairs, ms[mi + 1].first)
                  popped == SubSeq(ms, 1, Len(ms) - 1)
              IN  IF mi # Len(ms) - 1
                  THEN LET back == ms[Len(ms)]
                       IN  finishManifoldsUpdate(
                               [popped EXCEPT ![mi + 1] = back],
                               [erased EXCEPT ![back.first] = mi],
                               mi)
                  ELSE finishManifoldsUpdate(popped, erased, mi)
         ELSE finishManifoldsUpdate(ms, pairs, mi + 1)

\* Faulty variant of the loop body: the array is shortened only after a
\* manifold was moved into the freed slot.
removalIterationPopMoved(ms, pairs, mi) ==
    IF ms[mi + 1].second.obsolete
    THEN LET erased == EraseKey(pairs, ms[mi + 1].first)
             popped == SubSeq(ms, 1, Len(ms) - 1)
             back == ms[Len(ms)]
         IN  IF mi # Len(ms) - 1
             THEN [ms |-> [popped EXCEPT ![mi + 1] = back],
                   pairs |-> [erased EXCEPT ![back.first] = mi],
                   mi |-> mi]
             ELSE [ms |-> ms, pairs |-> erased, mi |-> mi]
    ELSE [ms |-> ms, pairs |-> pairs, mi |-> mi + 1]

\* ContactSolver::finishManifoldsUpdate, one iteration of the while loop
\* (mi # Len(ms)): an obsolete manifold is erased from the map, replaced by
\* the last one and the array popped; otherwise the index advances.
removalIteration(ms, pairs, mi) ==
    IF ms[mi + 1].second.obsolete
    THEN LET erased == EraseKey(pairs, ms[mi + 1].first)
             popped == SubSeq(ms, 1, Len(ms) - 1)
             back == ms[Len(ms)]
         IN  IF mi # Len(ms) - 1
             THEN [ms |-> [popped EXCEPT ![mi + 1] = back],
                   pairs |-> [erased EXCEPT ![back.first] = mi],
                   mi |-> mi]
             ELSE [ms |-> popped, pairs |-> erased, mi |-> mi]
    ELSE [ms |-> ms, pairs |-> pairs, mi |-> mi + 1]

\* ContactSolver::onBodiesReallocation
rebaseAll(ms, memoryOffset) ==
    [i \in 1..Len(ms) |-> [ms[i] EXCEPT !.second = rebaseManifold(@, memoryOffset)]]

\* ------------------------------------------------------------------ state
VARIABLES
    gravity,             \* World::mGravity
    velocityIterations,  \* World::mVelocityIterations
    positionIterations,  \* World::mPositionIterations
    bodies,              \* World::mBodies, the elements
    bodiesData,          \* mBodies.data(): address of element 0, 0 = nullptr
    bodiesCapacity,      \* mBodies.capacity()
    aabbs,               \* BroadPhase::mAabbs
    endpoints,           \* BroadPhase::mEndpoints
    activePoints,        \* BroadPhase::mActivePoints
    activeMapping,       \* BroadPhase::mActiveMapping
    contactPairs,        \* ContactSolver::mContactPairs
    manifolds,           \* ContactSolver::mManifolds
    pc,                  \* position inside World::doStep, "idle" outside
    timeStep,            \* the argument of the running doStep
    iter,                \* loop counter of solveVelocities / solvePositions
    reported,            \* pairs handed to BroadPhaseCallback::onCollision
                         \* by the last BroadPhase::update, in order
    next,                \* 1-based index into reported of the next callback
    sweepOk,             \* the last sweep never popped an empty active set
    collided,            \* pairs with >= 1 collision point in this update
    result,              \* return value of the last addBody, 0 = nullptr
    steps,               \* number of doStep calls so far
    clears,              \* number of clear calls so far
    adds,                \* number of addBody calls so far
    trace,               \* phases executed by the current / last doStep
    removed,             \* keys of the manifolds that the last
                         \* finishManifoldsUpdate removed
    handles,             \* the Body* that addBody returned for each body
                         \* of mBodies, as the caller holds them
    freshEndpoints,      \* BroadPhase::mEndpoints of a world constructed
                         \* when this one was constructed or last cleared
                         \* and given the same calls since
    narrow               \* arguments and results of direct calls of
                         \* getBoxBoxCollision and clipEdgeByPlane

vars == << gravity, velocityIterations, positionIterations, bodies, bodiesData,
           bodiesCapacity, aabbs, endpoints, activePoints, activeMapping,
           contactPairs, manifolds, pc, timeStep, iter, reported, next,
           sweepOk, collided, result, steps, clears, adds, trace, removed,
           handles, freshEndpoints, narrow >>

worldVars == << gravity, velocityIterations, positionIterations >>

storageVars == << bodiesData, bodiesCapacity >>

broadVars == << aabbs, endpoints, activePoints, activeMapping, reported, next,
                sweepOk, collided >>

solverVars == << contactPairs, manifolds >>

\* ------------------------------------------------------- heap of mBodies
NULL == 0

\* Start address of the k-th block the allocator hands out; a block is
\* large enough for any capacity the model reaches.
BlockAddress(k) == k * 2 ^ (IndexBits + 2)

\* The block the allocator returns while the block at data is still live.
FreshBlock(data) ==
    IF data = BlockAddress(1) THEN BlockAddress(2) ELSE BlockAddress(1)

\* Capacity after a growing emplace_back
GrownCapacity(capacity) == IF capacity = 0 THEN 1 ELSE 2 * capacity

\* No direct call of the narrow phase is made
NoCalls == [call |-> "none"]

\* ----------------------------------------------------------------- inputs
\* World constructor arguments
Gravities == { Vec2(0, -10 * SCALE) }

\* setVelocityIterations / setPositionIterations arguments, as pairs
IterationCounts == { << 1, 0 >>, << 2, 1 >> }

\* doStep arguments: 1/60 s
TimeSteps == { SCALE \div 60 }

BodyInput(size, mass, friction, position, rotationRad) ==
    [size |-> size, mass |-> mass, friction |-> friction,
     position |-> position, rotationRad |-> rotationRad]

\* addBody arguments of the general specification:
\*   a static block 2 x 1 at the origin;
\*   a unit box resting on the block, 0.002 deep in it;
\*   a unit box tilted by 0.1 rad whose upper corner touches the block
\*   from below, so that it falls away in the first step;
\*   a static unit box that overlaps the block and whose AABB begins on
\*   the x axis exactly where the AABB of the resting box ends.
BodyInputs ==
    { BodyInput(Vec2(2 * SCALE, SCALE), 0, SCALE \div 2, Vec2(0, 0), 0),
      BodyInput(Vec2(SCALE, SCALE), SCALE, SCALE \div 2,
                Vec2(0, SCALE - SCALE \div 500), 0),
      BodyInput(Vec2(SCALE, SCALE), SCALE, SCALE,
                Vec2(-(SCALE \div 4), -(SCALE + SCALE \div 21)), SCALE \div 10),
      BodyInput(Vec2(SCALE, SCALE), 0, SCALE \div 4,
                Vec2(SCALE, SCALE - SCALE \div 500), 0) }

\* The body was made from the input (size, mass and friction never change)
SameInput(body, in) ==
    /\ body.halfSize = VScale(SCALE \div 2, in.size)
    /\ body.mass = in.mass
    /\ body.friction = in.friction

\* addBody arguments of the capacity specification: body n is a unit box
\* whose left part overlaps body n - 1.
LineInput(n) ==
    BodyInput(Vec2(SCALE, SCALE), SCALE, SCALE \div 2,
              Vec2(n * (SCALE - SCALE \div 10), 0), 0)

\* ------------------------------------------------------------------- Init
Init ==
    /\ gravity \in Gravities
    /\ \E counts \in IterationCounts :
          /\ velocityIterations = counts[1]
          /\ positionIterations = counts[2]
    /\ bodies = << >>
    /\ bodiesData = NULL
    /\ bodiesCapacity = 0
    /\ aabbs = << >>
    /\ endpoints = << >>
    /\ activePoints = << >>
    /\ activeMapping = << >>
    /\ contactPairs = << >>
    /\ manifolds = << >>
    /\ pc = "idle"
    /\ timeStep = 0
    /\ iter = 0
    /\ reported = << >>
    /\ next = 1
    /\ sweepOk = TRUE
    /\ collided = {}
    /\ result = NULL
    /\ steps = 0
    /\ clears = 0
    /\ adds = 0
    /\ trace = << >>
    /\ removed = {}
    /\ handles = << >>
    /\ freshEndpoints = << >>
    /\ narrow = NoCalls

\* ------------------------------------------------------------------ World
\* Faulty variant of the capacity test: the limit is one body too high.
atCapacityOneLate(count) == count = UINT32_MAX + 1

\* The capacity test of World::addBody
atCapacity(count) == count = UINT32_MAX

\* World::addBody(size, mass, friction, position, rotationRad)
AddBody(in) ==
    /\ pc = "idle"
    /\ IF atCapacity(Len(bodies))
       THEN /\ result' = NULL
            /\ UNCHANGED << bodies, storageVars, solverVars, handles >>
       ELSE LET grows == Len(bodies) = bodiesCapacity
                newData == IF grows THEN FreshBlock(bodiesData) ELSE bodiesData
                memoryOffset == newData - bodiesData
                body == [Body(in.size, in.mass, in.friction) EXCEPT
                            !.position = in.position,
                            !.rotation = in.rotationRad]
            IN  /\ bodies' = Append(bodies, body)
                /\ bodiesData' = newData
                /\ bodiesCapacity' = IF grows THEN GrownCapacity(bodiesCapacity)
                                              ELSE bodiesCapacity
                /\ manifolds' = IF memoryOffset # 0
                                THEN rebaseAll(manifolds, memoryOffset)
                                ELSE manifolds
                /\ result' = newData + Len(bodies)
                /\ handles' = Append(handles, newData + Len(bodies))
                /\ UNCHANGED contactPairs
    /\ adds' = adds + 1
    /\ UNCHANGED << freshEndpoints, removed, narrow, worldVars, broadVars, pc, timeStep, iter, steps, clears, trace >>

\* World::reserveBodies(maxBodies)
ReserveBodies(maxBodies) ==
    /\ pc = "idle"
    /\ LET grows == maxBodies > bodiesCapacity
           newData == IF grows THEN FreshBlock(bodiesData) ELSE bodiesData
           memoryOffset == newData - bodiesData
       IN  /\ bodiesData' = newData
           /\ bodiesCapacity' = IF grows THEN maxBodies ELSE bodiesCapacity
           /\ manifolds' = IF memoryOffset # 0
                           THEN rebaseAll(manifolds, memoryOffset)
                           ELSE manifolds
    /\ UNCHANGED << freshEndpoints, handles, removed, narrow, worldVars, bodies, broadVars, contactPairs, pc, timeStep, iter,
                    result, steps, clears, adds, trace >>

\* World::clear
Clear ==
    /\ pc = "idle"
    /\ clears < MaxClears
    /\ clears' = clears + 1
    /\ UNCHANGED adds
    /\ bodies' = << >>
    /\ contactPairs' = << >>
    /\ manifolds' = << >>
    /\ handles' = << >>
    /\ freshEndpoints' = << >>
    /\ UNCHANGED << removed, narrow, worldVars, storageVars, broadVars, pc, timeStep, iter, result,
                    steps, trace >>

\* Faulty variant of applyForces: gravity is not masked for static bodies.
applyForcesUnmasked(bs, dt, g) ==
    [i \in 1..Len(bs) |->
        [bs[i] EXCEPT !.linearVelocity = VAdd(@, VScale(SCALE, VScale(dt, g)))]]

\* World::applyForces
applyForces(bs, dt, g) ==
    [i \in 1..Len(bs) |->
        [bs[i] EXCEPT !.linearVelocity =
            VAdd(@, VScale(IF isStatic(bs[i]) THEN 0 ELSE SCALE, VScale(dt, g)))]]

\* World::integratePositions
integratePositions(bs, dt) ==
    [i \in 1..Len(bs) |->
        [bs[i] EXCEPT
            !.position = VAdd(@, VScale(dt, bs[i].linearVelocity)),
            !.rotation = @ + FMul(dt, bs[i].angularVelocity)]]

\* Faulty variant of the statement sequence: the positions are solved
\* before they are integrated.
NextPhaseSolveFirst(phase) ==
    CASE phase = "applyForces"            -> "prepareManifoldsUpdate"
      [] phase = "prepareManifoldsUpdate" -> "collisionUpdate"
      [] phase = "collisionUpdate"        -> "finishManifoldsUpdate"
      [] phase = "finishManifoldsUpdate"  -> "prepareToSolve"
      [] phase = "prepareToSolve"         -> "solveVelocities"
      [] phase = "solveVelocities"        -> "solvePositions"
      [] phase = "solvePositions"         -> "integratePositions"
      [] phase = "integratePositions"     -> "idle"

\* The statement sequence of World::doStep: the phase that follows phase.
NextPhase(phase) ==
    CASE phase = "applyForces"            -> "prepareManifoldsUpdate"
      [] phase = "prepareManifoldsUpdate" -> "collisionUpdate"
      [] phase = "collisionUpdate"        -> "finishManifoldsUpdate"
      [] phase = "finishManifoldsUpdate"  -> "prepareToSolve"
      [] phase = "prepareToSolve"         -> "solveVelocities"
      [] phase = "solveVelocities"        -> "integratePositions"
      [] phase = "integratePositions"     -> "solvePositions"
      [] phase = "solvePositions"         -> "idle"

\* World::doStep(timeStep), entry: applyForces(timeStep)
DoStep(dt) ==
    /\ pc = "idle"
    /\ steps < MaxSteps
    /\ dt > 0
    /\ timeStep' = dt
    /\ steps' = steps + 1
    /\ bodies' = applyForces(bodies, dt, gravity)
    /\ pc' = NextPhase("applyForces")
    /\ trace' = << "applyForces" >>
    /\ UNCHANGED << freshEndpoints, handles, removed, narrow, worldVars, storageVars, broadVars, solverVars, iter, result,
                    clears, adds >>

\* doStep: mContactSolver.prepareManifoldsUpdate()
PrepareManifoldsUpdate ==
    /\ pc = "prepareManifoldsUpdate"
    /\ manifolds' = markAllObsolete(manifolds)
    /\ pc' = NextPhase(pc)
    /\ trace' = Append(trace, "prepareManifoldsUpdate")
    /\ UNCHANGED << freshEndpoints, handles, removed, narrow, worldVars, bodies, storageVars, broadVars, contactPairs,
                    timeStep, iter, result, steps, clears, adds >>

\* doStep: mCollision.update(mContactSolver), the part done by
\* BroadPhase::update: new AABBs and endpoints, the sweep.  The callbacks of
\* the sweep read the bodies only, so they are run one by one (OnCollision)
\* after the sweep, in the order the sweep makes them.
CollisionUpdate ==
    /\ pc = "collisionUpdate"
    /\ LET boxes == UpdateAabbs(bodies)
           eps == UpdateEndpoints(endpoints, boxes, Len(bodies))
           st == sweepAxis(bodies, boxes, eps, 1,
                           [active  |-> << >>,
                            mapping |-> ResizeMapping(activeMapping, Len(bodies)),
                            pairs   |-> << >>,
                            ok      |-> TRUE])
       IN  /\ aabbs' = boxes
           /\ endpoints' = eps
           /\ freshEndpoints' = UpdateEndpoints(freshEndpoints, boxes, Len(bodies))
           /\ activePoints' = st.active
           /\ activeMapping' = st.mapping
           /\ reported' = st.pairs
           /\ sweepOk' = st.ok
    /\ next' = 1
    /\ collided' = {}
    /\ pc' = "callbacks"
    /\ trace' = Append(trace, "broadPhase")
    /\ UNCHANGED << handles, removed, narrow, worldVars, bodies, storageVars, solverVars, timeStep, iter,
                    result, steps, clears, adds >>

\* Variant: the solver callback is made whatever the number of points.
OnCollisionUnguarded ==
    /\ pc = "callbacks"
    /\ next <= Len(reported)
    /\ LET bodyIndA == reported[next][1]
           bodyIndB == reported[next][2]
           bodyA == bodies[bodyIndA + 1]
           bodyB == bodies[bodyIndB + 1]
           points == getBoxBoxCollision(<< bodyA.position, bodyB.position >>,
                                        << bodyA.rotation, bodyB.rotation >>,
                                        << bodyA.halfSize, bodyB.halfSize >>)
           r == solverOnCollision(manifolds, contactPairs, bodies, bodiesData,
                                  bodyIndA, bodyIndB, points)
       IN  /\ manifolds' = r.ms
           /\ contactPairs' = r.pairs
           /\ collided' = collided \cup { << bodyIndA, bodyIndB >> }
    /\ next' = next + 1
    /\ trace' = Append(trace, "onCollision")
    /\ UNCHANGED << freshEndpoints, handles, removed, narrow, worldVars, bodies, storageVars, aabbs, endpoints, activePoints,
                    activeMapping, reported, sweepOk, pc, timeStep, iter, result,
                    steps, clears, adds >>

\* CollisionSystem::onCollision(bodyIndA, bodyIndB) for the next reported
\* pair: the narrow phase, then ContactSolver::onCollision if it found a point.
OnCollision ==
    /\ pc = "callbacks"
    /\ next <= Len(reported)
    /\ LET bodyIndA == reported[next][1]
           bodyIndB == reported[next][2]
           bodyA == bodies[bodyIndA + 1]
           bodyB == bodies[bodyIndB + 1]
           points == getBoxBoxCollision(<< bodyA.position, bodyB.position >>,
                                        << bodyA.rotation, bodyB.rotation >>,
                                        << bodyA.halfSize, bodyB.halfSize >>)
           r == solverOnCollision(manifolds, contactPairs, bodies, bodiesData,
                                  bodyIndA, bodyIndB, points)
       IN  IF Len(points) > 0
           THEN /\ manifolds' = r.ms
                /\ contactPairs' = r.pairs
                /\ collided' = collided \cup { << bodyIndA, bodyIndB >> }
           ELSE UNCHANGED << manifolds, contactPairs, collided >>
    /\ next' = next + 1
    /\ trace' = Append(trace, "onCollision")
    /\ UNCHANGED << freshEndpoints, handles, removed, narrow, worldVars, bodies, storageVars, aabbs, endpoints, activePoints,
                    activeMapping, reported, sweepOk, pc, timeStep, iter, result,
                    steps, clears, adds >>

\* mCollision.update returns after the last callback
CollisionReturn ==
    /\ pc = "callbacks"
    /\ next > Len(reported)
    /\ pc' = NextPhase("collisionUpdate")
    /\ UNCHANGED << freshEndpoints, handles, removed, narrow, worldVars, bodies, storageVars, broadVars, solverVars,
                    timeStep, iter, result, steps, clears, adds, trace >>

\* Faulty variant of the removal: the manifolds that stay are left without
\* their accumulated impulses.
FinishManifoldsUpdateResetting ==
    /\ pc = "finishManifoldsUpdate"
    /\ LET r == finishManifoldsUpdate(manifolds, contactPairs, 0)
       IN  /\ manifolds' =
                  [i \in 1..Len(r.ms) |->
                      [r.ms[i] EXCEPT !.second.contacts =
                          [k \in 1..Len(@) |->
                              [@[k] EXCEPT !.normalImpulse = 0,
                                           !.tangentImpulse = 0]]]]
           /\ contactPairs' = r.pairs
           /\ removed' = { manifolds[i].first : i \in 1..Len(manifolds) } \
                          { r.ms[i].first : i \in 1..Len(r.ms) }
    /\ pc' = NextPhase(pc)
    /\ trace' = Append(trace, "finishManifoldsUpdate")
    /\ UNCHANGED << freshEndpoints, handles, narrow, worldVars, bodies, storageVars, broadVars, timeStep,
                    iter, result, steps, clears, adds >>

\* doStep: mContactSolver.finishManifoldsUpdate()
FinishManifoldsUpdate ==
    /\ pc = "finishManifoldsUpdate"
    /\ LET r == finishManifoldsUpdate(manifolds, contactPairs, 0)
       IN  /\ manifolds' = r.ms
           /\ contactPairs' = r.pairs
           /\ removed' = { manifolds[i].first : i \in 1..Len(manifolds) } \
                          { r.ms[i].first : i \in 1..Len(r.ms) }
    /\ pc' = NextPhase(pc)
    /\ trace' = Append(trace, "finishManifoldsUpdate")
    /\ UNCHANGED << freshEndpoints, handles, narrow, worldVars, bodies, storageVars, broadVars, timeStep,
                    iter, result, steps, clears, adds >>

\* The removal loop has begun in this step
RemovalBegun == trace[Len(trace)] = "finishManifoldsUpdate"

\* doStep: mContactSolver.finishManifoldsUpdate(), one iteration of its
\* loop; iter is the local mi
RemovalIteration ==
    /\ pc = "finishManifoldsUpdate"
    /\ iter # Len(manifolds)
    /\ LET r == removalIteration(manifolds, contactPairs, iter)
       IN  /\ manifolds' = r.ms
           /\ contactPairs' = r.pairs
           /\ iter' = r.mi
           /\ removed' = (IF RemovalBegun THEN removed ELSE {}) \cup
                          (IF manifolds[iter + 1].second.obsolete
                           THEN { manifolds[iter + 1].first } ELSE {})
    /\ trace' = IF RemovalBegun THEN trace ELSE Append(trace, "finishManifoldsUpdate")
    /\ UNCHANGED << freshEndpoints, handles, narrow, worldVars, bodies, storageVars, broadVars, timeStep,
                    pc, result, steps, clears, adds >>

\* doStep: mContactSolver.finishManifoldsUpdate(), the exit of its loop
\* (mi = mManifolds.size()) and the return
RemovalReturn ==
    /\ pc = "finishManifoldsUpdate"
    /\ iter = Len(manifolds)
    /\ iter' = 0
    /\ removed' = IF RemovalBegun THEN removed ELSE {}
    /\ trace' = IF RemovalBegun THEN trace ELSE Append(trace, "finishManifoldsUpdate")
    /\ pc' = NextPhase(pc)
    /\ UNCHANGED << freshEndpoints, handles, narrow, worldVars, bodies, storageVars, broadVars, solverVars,
                    timeStep, result, steps, clears, adds >>

\* doStep: mContactSolver.prepareToSolve()
PrepareToSolve ==
    /\ pc = "prepareToSolve"
    /\ LET r == prepareAll([ms |-> manifolds, bs |-> bodies], bodiesData, 1)
       IN  /\ manifolds' = r.ms
           /\ bodies' = r.bs
    /\ pc' = NextPhase(pc)
    /\ iter' = 0
    /\ trace' = Append(trace, "prepareToSolve")
    /\ UNCHANGED << freshEndpoints, handles, removed, narrow, worldVars, storageVars, broadVars, contactPairs, timeStep,
                    result, steps, clears, adds >>

\* doStep: mContactSolver.solveVelocities(mVelocityIterations): one pass of
\* the outer loop, or its end
SolveVelocities ==
    /\ pc = "solveVelocities"
    /\ IF iter < velocityIterations
       THEN /\ LET r == solveVelocitiesPass([ms |-> manifolds, bs |-> bodies],
                                            bodiesData, 1)
               IN  /\ manifolds' = r.ms
                   /\ bodies' = r.bs
            /\ iter' = iter + 1
            /\ trace' = Append(trace, "solveVelocities")
            /\ UNCHANGED pc
       ELSE /\ pc' = NextPhase(pc)
            /\ iter' = 0
            /\ UNCHANGED << bodies, manifolds, trace >>
    /\ UNCHANGED << freshEndpoints, handles, removed, narrow, worldVars, storageVars, broadVars, contactPairs, timeStep,
                    result, steps, clears, adds >>

\* doStep: integratePositions(timeStep)
IntegratePositions ==
    /\ pc = "integratePositions"
    /\ bodies' = integratePositions(bodies, timeStep)
    /\ pc' = NextPhase(pc)
    /\ trace' = Append(trace, "integratePositions")
    /\ UNCHANGED << freshEndpoints, handles, removed, narrow, worldVars, storageVars, broadVars, solverVars, timeStep,
                    iter, result, steps, clears, adds >>

\* doStep: mContactSolver.solvePositions(mPositionIterations): one pass of
\* the outer loop, or its end
SolvePositions ==
    /\ pc = "solvePositions"
    /\ IF iter < positionIterations
       THEN /\ LET r == solvePositionsPass([ms |-> manifolds, bs |-> bodies],
                                           bodiesData, 1)
               IN  bodies' = r.bs
            /\ iter' = iter + 1
            /\ trace' = Append(trace, "solvePositions")
            /\ UNCHANGED pc
       ELSE /\ pc' = NextPhase(pc)
            /\ iter' = 0
            /\ UNCHANGED << bodies, trace >>
    /\ UNCHANGED << freshEndpoints, handles, removed, narrow, worldVars, storageVars, broadVars, solverVars, timeStep,
                    result, steps, clears, adds >>

\* The phases of a running doStep
StepPhases ==
    \/ PrepareManifoldsUpdate
    \/ CollisionUpdate
    \/ OnCollision
    \/ CollisionReturn
    \/ FinishManifoldsUpdate
    \/ PrepareToSolve
    \/ SolveVelocities
    \/ IntegratePositions
    \/ SolvePositions

\* ---------------------------------------------------------- specifications
\* The general specification: any client calls, at most MaxBodies addBody,
\* MaxSteps doStep and MaxClears clear calls; no input is in the world twice.
AddBodyAny ==
    \E in \in BodyInputs :
        /\ adds < MaxBodies
        /\ \A i \in 1..Len(bodies) : ~SameInput(bodies[i], in)
        /\ AddBody(in)

ReserveBodiesAny == \E n \in { MaxBodies + 1 } : ReserveBodies(n)

DoStepAny == \E dt \in TimeSteps : DoStep(dt)

Next ==
    \/ AddBodyAny
    \/ ReserveBodiesAny
    \/ Clear
    \/ DoStepAny
    \/ StepPhases

Spec == Init /\ [][Next]_vars

\* The capacity specification: a row of boxes is added one by one until
\* addBody refuses, and doStep is called when the world holds two bodies,
\* half of the index range, or all the bodies it can take.
StepCounts == { 2, 2 ^ (IndexBits - 1), UINT32_MAX }

AddBodyLine == adds <= UINT32_MAX /\ AddBody(LineInput(Len(bodies)))

DoStepLine == \E dt \in TimeSteps : Len(bodies) \in StepCounts /\ DoStep(dt)

NextCapacity ==
    \/ AddBodyLine
    \/ DoStepLine
    \/ StepPhases

SpecCapacity == Init /\ [][NextCapacity]_vars

\* The refill specification: two boxes side by side are added and stepped,
\* the world is cleared, and three boxes are added of which the first two
\* begin at the same x; the n-th addBody before (cleared = FALSE) and after
\* the clear.
RefillInput(cleared, n) ==
    BodyInput(Vec2(SCALE, SCALE), SCALE, SCALE \div 2,
              CASE n = 2              -> Vec2(-(SCALE \div 2), (9 * SCALE) \div 20)
                [] n = 0 /\ ~cleared -> Vec2(SCALE, 0)
                [] n = 1 /\ cleared  -> Vec2(0, (9 * SCALE) \div 10)
                [] OTHER              -> Vec2(0, 0),
              0)

AddBodyRefill ==
    /\ Len(bodies) < MaxBodies
    /\ AddBody(RefillInput(clears > 0, Len(bodies)))

NextRefill ==
    \/ AddBodyRefill
    \/ Clear
    \/ DoStepAny
    \/ StepPhases

SpecRefill == Init /\ [][NextRefill]_vars

\* The corner specification: a static block, a unit box resting on it, and
\* a unit box turned by 45 degrees beside the upper right corner of the
\* block: its AABB overlaps that of the block while the boxes are apart,
\* and its left corner is in the right face of the resting box.
CornerInput(n) ==
    CASE n = 0 -> BodyInput(Vec2(2 * SCALE, SCALE), 0, SCALE \div 2, Vec2(0, 0), 0)
      [] n = 1 -> BodyInput(Vec2(SCALE, SCALE), SCALE, SCALE \div 2,
                            Vec2(0, SCALE - SCALE \div 500), 0)
      [] OTHER -> BodyInput(Vec2(SCALE, SCALE), SCALE, SCALE,
                            Vec2((6 * SCALE) \div 5, (11 * SCALE) \div 10), PI \div 4)

AddBodyCorner == Len(bodies) < MaxBodies /\ AddBody(CornerInput(Len(bodies)))

NextCorner ==
    \/ AddBodyCorner
    \/ DoStepAny
    \/ StepPhases

SpecCorner == Init /\ [][NextCorner]_vars

\* The stepwise specification: the calls of the general specification, with
\* the removal loop of finishManifoldsUpdate taken one iteration at a time.
StepPhasesLive ==
    \/ PrepareManifoldsUpdate
    \/ CollisionUpdate
    \/ OnCollision
    \/ CollisionReturn
    \/ RemovalIteration
    \/ RemovalReturn
    \/ PrepareToSolve
    \/ SolveVelocities
    \/ IntegratePositions
    \/ SolvePositions

NextLive ==
    \/ AddBodyAny
    \/ ReserveBodiesAny
    \/ Clear
    \/ DoStepAny
    \/ StepPhasesLive

\* The position of a running doStep: its statement and its loop counters
position == << pc, iter, next >>

\* The statements of doStep
PhaseNames ==
    { "idle", "prepareManifoldsUpdate", "collisionUpdate", "callbacks",
      "finishManifoldsUpdate", "prepareToSolve", "solveVelocities",
      "integratePositions", "solvePositions" }

\* A statement of the running doStep outside the removal loop is executed:
\* the position moves to the next callback, pass or statement.
Proceed ==
    /\ pc \in PhaseNames \ { "idle", "finishManifoldsUpdate" }
    /\ pc' \in PhaseNames
    /\ iter' \in { 0, iter, iter + 1 }
    /\ next' \in { 1, next, next + 1 }

\* doStep is one sequential call on one thread: a statement that is reached
\* is executed. For the removal loop this is weak fairness of its iteration
\* and of its exit. The other statements are total functions of the state
\* that move the position, and evaluating ENABLED of them (the broad
\* phase, the narrow phase, the solver passes) is beyond TLC, so their
\* fairness is stated on the position: it does not stay forever at one of
\* them.
SpecLive ==
    /\ Init
    /\ [][NextLive]_vars
    /\ WF_position(Proceed)
    /\ WF_vars(RemovalIteration)
    /\ WF_vars(RemovalReturn)

\* The narrow-phase specification: getBoxBoxCollision is called for a pair
\* of boxes and for the same boxes in the other order, and clipEdgeByPlane
\* is called for an edge and a plane; the world is left as constructed.
\* Box A is at the origin; box B is a unit box.
NarrowInputs ==
    { [positions |-> << ZeroVec, Vec2(x, y) >>,
       rotations |-> << ra, rb >>,
       halfSizes |-> << ha, Vec2(SCALE \div 2, SCALE \div 2) >>] :
        x \in { -1400, -1000, -500, 0, 300, 900, 1450 },
        y \in { -1100, -950, -400, 0, 600, 950, 1020 },
        ra \in { 0, SCALE \div 5 },
        rb \in { 0, SCALE \div 10, (PI \div 4), -(3 * SCALE) \div 10 },
        ha \in { Vec2(SCALE, SCALE \div 2), Vec2(SCALE \div 2, SCALE \div 2) } }

\* The incident edge e of the box geometry with its end points at x0 and x1
\* on the x axis, against the plane x = offset of the edge clipEdge of the
\* other box.
ClipInputs ==
    { [source |-> << ClippedPoint(Vec2(x0, 0),
                                  << GeometryFeature(g, (e + 3) % 4),
                                     GeometryFeature(g, e) >>),
                     ClippedPoint(Vec2(x1, SCALE),
                                  << GeometryFeature(g, e),
                                     GeometryFeature(g, (e + 1) % 4) >>) >>,
       clipPlane   |-> Plane(Vec2(SCALE, 0), ZeroVec, offset),
       clipBody    |-> 1 - g,
       clipAxisInd |-> clipEdge] :
        x0 \in { -SCALE, 0, SCALE \div 2, SCALE },
        x1 \in { -SCALE, 0, SCALE \div 2, SCALE },
        offset \in { SCALE \div 4, SCALE \div 2 },
        g \in { 0, 1 },
        e \in { 0, 2 },
        clipEdge \in { 1, 3 } }

InitNarrow ==
    /\ gravity \in Gravities
    /\ \E counts \in IterationCounts :
          /\ velocityIterations = counts[1]
          /\ positionIterations = counts[2]
    /\ bodies = << >>
    /\ bodiesData = NULL
    /\ bodiesCapacity = 0
    /\ aabbs = << >>
    /\ endpoints = << >>
    /\ activePoints = << >>
    /\ activeMapping = << >>
    /\ contactPairs = << >>
    /\ manifolds = << >>
    /\ pc = "idle"
    /\ timeStep = 0
    /\ iter = 0
    /\ reported = << >>
    /\ next = 1
    /\ sweepOk = TRUE
    /\ collided = {}
    /\ result = NULL
    /\ steps = 0
    /\ clears = 0
    /\ adds = 0
    /\ trace = << >>
    /\ removed = {}
    /\ handles = << >>
    /\ freshEndpoints = << >>
    /\ \/ \E in \in NarrowInputs : narrow = [call |-> "getBoxBoxCollision", args |-> in]
       \/ \E in \in ClipInputs : narrow = [call |-> "clipEdgeByPlane", args |-> in]

\* All variables but narrow
worldState ==
    << gravity, velocityIterations, positionIterations, bodies, bodiesData,
       bodiesCapacity, aabbs, endpoints, activePoints, activeMapping,
       contactPairs, manifolds, pc, timeStep, iter, reported, next,
       sweepOk, collided, result, steps, clears, adds, trace, removed,
       handles, freshEndpoints >>

\* The arguments with the two boxes exchanged
Swapped(args) ==
    [positions |-> << args.positions[2], args.positions[1] >>,
     rotations |-> << args.rotations[2], args.rotations[1] >>,
     halfSizes |-> << args.halfSizes[2], args.halfSizes[1] >>]

\* getBoxBoxCollision(positions, rotations, halfSizes, result)
NarrowCall ==
    /\ narrow.call = "getBoxBoxCollision"
    /\ narrow' = [call   |-> "returned",
                  args   |-> narrow.args,
                  points |-> getBoxBoxCollision(narrow.args.positions,
                                                narrow.args.rotations,
                                                narrow.args.halfSizes)]
    /\ UNCHANGED worldState

\* getBoxBoxCollision for the same boxes, B first
NarrowCallSwapped ==
    /\ narrow.call = "returned"
    /\ narrow' = [call    |-> "swapped",
                  args    |-> narrow.args,
                  points  |-> narrow.points,
                  swapped |-> getBoxBoxCollision(Swapped(narrow.args).positions,
                                                 Swapped(narrow.args).rotations,
                                                 Swapped(narrow.args).halfSizes)]
    /\ UNCHANGED worldState

\* clipEdgeByPlane(source, clipPlane, clipBody, clipAxisInd, target)
ClipCall ==
    /\ narrow.call = "clipEdgeByPlane"
    /\ narrow' = [call   |-> "clipped",
                  args   |-> narrow.args,
                  target |-> clipEdgeByPlane(narrow.args.source,
                                             narrow.args.clipPlane,
                                             narrow.args.clipBody,
                                             narrow.args.clipAxisInd)]
    /\ UNCHANGED worldState

\* The second clip of step 3: the edge the first clip left is clipped by
\* the opposite side plane of the clip box, whose edge index is the first
\* one rotated by 180 degrees.
ClipAgain ==
    /\ narrow.call = "clipped"
    /\ Len(narrow.target) = 2
    /\ LET args == [source      |-> narrow.target,
                    clipPlane   |-> [normal |-> VNeg(narrow.args.clipPlane.normal),
                                     offset |-> narrow.args.clipPlane.offset],
                    clipBody    |-> narrow.args.clipBody,
                    clipAxisInd |-> (narrow.args.clipAxisInd + 2) % 4]
       IN  narrow' = [call   |-> "clippedAgain",
                      args   |-> args,
                      target |-> clipEdgeByPlane(args.source, args.clipPlane,
                                                 args.clipBody, args.clipAxisInd)]
    /\ UNCHANGED worldState

NextNarrow ==
    \/ NarrowCall
    \/ NarrowCallSwapped
    \/ ClipCall
    \/ ClipAgain

SpecNarrow == InitNarrow /\ [][NextNarrow]_vars

\* ------------------------------------------------------------ properties
\* The AABBs of the bodies with the indices i and j overlap on the sweep
\* axis: an AABB that ends where the other one begins does not overlap it
\* (end events are sorted before start events).
OverlapOnX(i, j) ==
    /\ aabbs[i + 1].min.x < aabbs[j + 1].max.x
    /\ aabbs[j + 1].min.x < aabbs[i + 1].max.x

\* The AABBs overlap on the remaining axis: neither ends before the other
\* begins.
OverlapOnY(i, j) ==
    /\ aabbs[i + 1].min.y <= aabbs[j + 1].max.y
    /\ aabbs[j + 1].min.y <= aabbs[i + 1].max.y

BothStatic(i, j) == bodies[i + 1].mass = 0 /\ bodies[j + 1].mass = 0

\* The positions in the callback sequence at which the pair (i, j) is reported
Reports(i, j) == { k \in 1..Len(reported) : reported[k] = << i, j >> }

BodyIndices == 0..(Len(bodies) - 1)

\* C1 (broad-phase completeness): when BroadPhase::update has made its
\* callbacks, every pair of distinct bodies whose AABBs overlap and that are
\* not both static has been reported exactly once, smaller index first; no
\* pair is reported twice and no pair is reported with the larger index first.
BroadPhaseComplete ==
    pc = "callbacks" =>
        /\ \A i, j \in BodyIndices :
              (i < j /\ OverlapOnX(i, j) /\ OverlapOnY(i, j) /\ ~BothStatic(i, j))
                  => Cardinality(Reports(i, j)) = 1
        /\ \A k \in 1..Len(reported) :
              /\ reported[k][1] < reported[k][2]
              /\ Cardinality(Reports(reported[k][1], reported[k][2])) = 1

\* C2 (broad-phase soundness): every pair reported by BroadPhase::update
\* names two bodies of the array whose AABBs overlap on the x axis and on the
\* y axis, and that are not both static.
BroadPhaseSound ==
    pc = "callbacks" =>
        \A k \in 1..Len(reported) :
            /\ reported[k][1] \in BodyIndices
            /\ reported[k][2] \in BodyIndices
            /\ OverlapOnX(reported[k][1], reported[k][2])
            /\ OverlapOnY(reported[k][1], reported[k][2])
            /\ ~BothStatic(reported[k][1], reported[k][2])

\* C2 witness: an update that reported a pair and left out a pair of static
\* bodies whose AABBs overlap.
BroadPhaseSoundWitness ==
    /\ pc = "callbacks"
    /\ reported # << >>
    /\ \E i, j \in BodyIndices :
          i < j /\ BothStatic(i, j) /\ OverlapOnX(i, j) /\ OverlapOnY(i, j)

\* The body pairs of the manifolds in the cache, by their body handles
ManifoldPair(manifold) ==
    << BodyIndex(manifold.bodyA, bodiesData), BodyIndex(manifold.bodyB, bodiesData) >>

ManifoldPairs == { ManifoldPair(manifolds[i].second) : i \in 1..Len(manifolds) }

\* The contacts in use of all manifolds in the cache
AllContacts ==
    UNION { { manifolds[i].second.contacts[k] :
                k \in 1..Len(manifolds[i].second.contacts) } :
            i \in 1..Len(manifolds) }

\* C3 (manifold lifecycle): after the update phase of a step the cache holds
\* one manifold for each pair for which the narrow phase found a contact in
\* this step and no other manifold, no manifold of a pair that collides was
\* removed, and no manifold is obsolete.
ManifoldLifecycle ==
    pc = "prepareToSolve" =>
        /\ ManifoldPairs = collided
        /\ Len(manifolds) = Cardinality(collided)
        /\ removed \cap { PairKey(p[1], p[2]) : p \in collided } = {}
        /\ \A i \in 1..Len(manifolds) : ~manifolds[i].second.obsolete

\* C3 witness: an update phase that removed a manifold and kept another one
ManifoldLifecycleWitness ==
    /\ pc = "prepareToSolve"
    /\ removed # {}
    /\ manifolds # << >>

\* The step taken is the callback for the reported pair at position next
\* and the narrow phase found a contact for it.
CallbackWithContact ==
    /\ pc = "callbacks"
    /\ next' = next + 1
    /\ << reported[next][1], reported[next][2] >> \in collided'

\* The impulses of the contact new are those of the contact old.
SameImpulses(new, old) ==
    /\ new.normalImpulse = old.normalImpulse
    /\ new.tangentImpulse = old.tangentImpulse

ZeroImpulses(contact) ==
    contact.normalImpulse = 0 /\ contact.tangentImpulse = 0

\* The old contacts of a manifold that carry the feature pair fp
Matches(oldContacts, fp) ==
    { k \in 1..Len(oldContacts) : oldContacts[k].point.featurePair = fp }

WarmStartStep ==
    CallbackWithContact =>
        LET key == PairKey(reported[next][1], reported[next][2])
            new == manifolds'[contactPairs'[key] + 1].second.contacts
        IN  IF key \in DOMAIN contactPairs
            THEN LET old == manifolds[contactPairs[key] + 1].second.contacts
                 IN  \A i \in 1..Len(new) :
                        LET same == Matches(old, new[i].point.featurePair)
                        IN  IF same = {}
                            THEN ZeroImpulses(new[i])
                            ELSE /\ Cardinality(same) = 1
                                 /\ \A k \in same : SameImpulses(new[i], old[k])
            ELSE \A i \in 1..Len(new) : ZeroImpulses(new[i])

\* C4 (warm-start persistence): when a pair that already has a manifold
\* collides again, each new contact whose feature pair equals that of an old
\* contact of the manifold takes over that contact's accumulated normal and
\* tangent impulses, and each new contact without such an old contact starts
\* with zero impulses; the contacts of a manifold created for a new pair
\* start with zero impulses.
WarmStartPersistence == [][WarmStartStep]_vars

\* C4 witness: a manifold updated in this step has a contact that took over
\* a positive normal impulse.
WarmStartPersistenceWitness ==
    /\ pc = "callbacks"
    /\ steps = 2
    /\ \E i \in 1..Len(manifolds) :
          /\ ~manifolds[i].second.obsolete
          /\ \E k \in 1..Len(manifolds[i].second.contacts) :
                manifolds[i].second.contacts[k].normalImpulse > 0

\* C5 (cache consistency): the map has one entry per manifold of the dense
\* array, the entry of the manifold at position i is filed under the key of
\* the manifold's body pair and holds i, and no two manifolds have the same
\* pair.
CacheConsistent ==
    /\ Cardinality(DOMAIN contactPairs) = Len(manifolds)
    /\ \A i \in 1..Len(manifolds) :
          /\ manifolds[i].first \in DOMAIN contactPairs
          /\ contactPairs[manifolds[i].first] = i - 1
          /\ manifolds[i].first = PairKey(ManifoldPair(manifolds[i].second)[1],
                                          ManifoldPair(manifolds[i].second)[2])
    /\ \A i, j \in 1..Len(manifolds) :
          i # j => ManifoldPair(manifolds[i].second) # ManifoldPair(manifolds[j].second)

\* C5 witness: a removal took a manifold out of the array while a manifold
\* that was created after it stays in the cache.
CacheConsistentWitness ==
    /\ pc = "prepareToSolve"
    /\ \E key \in removed :
          \E i \in 1..Len(manifolds) : manifolds[i].first > key

StaticBodiesStay ==
    (pc # "idle" \/ pc' # "idle") =>
        /\ Len(bodies') = Len(bodies)
        /\ \A i \in 1..Len(bodies) :
              isStatic(bodies[i]) =>
                  /\ bodies'[i].position = bodies[i].position
                  /\ bodies'[i].rotation = bodies[i].rotation

\* C6 (static invariance): no part of a step changes the position or the
\* rotation of a static body.
StaticInvariance == [][StaticBodiesStay]_vars

\* C6 witness: a finished step with position iterations in which a contact
\* with a static body carries a positive normal impulse.
StaticInvarianceWitness ==
    /\ pc = "idle"
    /\ steps >= 1
    /\ positionIterations >= 1
    /\ \E i \in 1..Len(manifolds) :
          /\ \/ isStatic(bodies[ManifoldPair(manifolds[i].second)[1] + 1])
             \/ isStatic(bodies[ManifoldPair(manifolds[i].second)[2] + 1])
          /\ \E k \in 1..Len(manifolds[i].second.contacts) :
                manifolds[i].second.contacts[k].normalImpulse > 0

\* C7 (normal impulse): the accumulated normal impulse of every contact is
\* never negative.
NormalImpulseNonNegative ==
    \A contact \in AllContacts : contact.normalImpulse >= 0

\* C7 witness: in the second step, after the velocity iterations, a contact
\* carries a positive normal impulse and all of them were warm started.
NormalImpulseNonNegativeWitness ==
    /\ pc = "integratePositions"
    /\ steps = 2
    /\ \E contact \in AllContacts : contact.normalImpulse > 0

\* At least one velocity iteration of the running step is done.
AfterVelocityIteration ==
    \/ pc = "solveVelocities" /\ iter >= 1
    \/ pc \in { "integratePositions", "solvePositions" }

\* C8 (friction cone): after a velocity iteration the accumulated tangent
\* impulse of every contact is at most the manifold's friction times the
\* contact's accumulated normal impulse, in absolute value.
FrictionCone ==
    AfterVelocityIteration =>
        \A i \in 1..Len(manifolds) :
            \A k \in 1..Len(manifolds[i].second.contacts) :
                Abs(manifolds[i].second.contacts[k].tangentImpulse)
                    <= FMul(manifolds[i].second.friction,
                            manifolds[i].second.contacts[k].normalImpulse)

\* C8 witness: after a velocity iteration a contact slides, its tangent
\* impulse is on the boundary of the cone.
FrictionConeWitness ==
    /\ AfterVelocityIteration
    /\ \E i \in 1..Len(manifolds) :
          \E k \in 1..Len(manifolds[i].second.contacts) :
              /\ manifolds[i].second.contacts[k].tangentImpulse # 0
              /\ Abs(manifolds[i].second.contacts[k].tangentImpulse)
                    = FMul(manifolds[i].second.friction,
                           manifolds[i].second.contacts[k].normalImpulse)

Repeat(n, phase) == [i \in 1..n |-> phase]

\* The phases of one step with the given number of callbacks
StepTrace(callbacks) ==
    << "applyForces", "prepareManifoldsUpdate", "broadPhase" >>
        \o Repeat(callbacks, "onCollision")
        \o << "finishManifoldsUpdate", "prepareToSolve" >>
        \o Repeat(velocityIterations, "solveVelocities")
        \o << "integratePositions" >>
        \o Repeat(positionIterations, "solvePositions")

IsPrefix(s, t) == Len(s) <= Len(t) /\ SubSeq(t, 1, Len(s)) = s

\* C9 (step ordering): a step runs apply forces, prepare manifolds update,
\* the broad phase with one narrow-phase callback per reported pair, finish
\* manifolds update, prepare to solve, the velocity iterations, integrate
\* positions and the position iterations, in this order.
StepOrdering ==
    /\ (pc = "idle" /\ steps > 0) => trace = StepTrace(Len(reported))
    /\ pc \notin { "idle", "prepareManifoldsUpdate", "collisionUpdate" }
          => IsPrefix(trace, StepTrace(Len(reported)))

\* C9 witness: a finished step with a callback, two velocity iterations and
\* a position iteration.
StepOrderingWitness ==
    /\ pc = "idle"
    /\ steps >= 1
    /\ reported # << >>
    /\ velocityIterations = 2
    /\ positionIterations = 1
    /\ Len(trace) = 9 + Len(reported)

AddAtCapacity ==
    (Len(bodies) = UINT32_MAX /\ adds' = adds + 1) =>
        /\ result' = NULL
        /\ UNCHANGED << bodies, bodiesData, bodiesCapacity, manifolds, contactPairs >>

\* C10 (capacity exhaustion): an add body call made when the world holds
\* 2^w - 1 bodies, w the width of a body index, returns no handle and leaves
\* the bodies, their storage and the cache as they are.
CapacityExhaustion == [][AddAtCapacity]_vars

\* C10 witness: an add body call was refused by a world that holds the
\* maximal number of bodies and manifolds between them.
CapacityExhaustionWitness ==
    /\ result = NULL
    /\ adds = UINT32_MAX + 1
    /\ Len(bodies) = UINT32_MAX
    /\ manifolds # << >>

\* C11 (stable handles): the handle that addBody returned for the body at
\* index i refers to that body, that is, it is the address of element i of
\* the body storage, until clear is called.
HandlesStable ==
    /\ Len(handles) = Len(bodies)
    /\ \A i \in 1..Len(handles) : BodyIndex(handles[i], bodiesData) = i - 1

\* The handles of the manifold refer to the bodies at the indices in its key.
HandlesMatchKey(entry, data, count) ==
    /\ BodyIndex(entry.second.bodyA, data) \in 0..(count - 1)
    /\ BodyIndex(entry.second.bodyB, data) \in 0..(count - 1)
    /\ entry.first = PairKey(BodyIndex(entry.second.bodyA, data),
                             BodyIndex(entry.second.bodyB, data))

ManifoldHandlesStep ==
    /\ \A i \in 1..Len(manifolds') :
          HandlesMatchKey(manifolds'[i], bodiesData', Len(bodies'))
    /\ bodiesData' # bodiesData =>
          /\ Len(manifolds') = Len(manifolds)
          /\ \A i \in 1..Len(manifolds) :
                /\ manifolds'[i].first = manifolds[i].first
                /\ manifolds'[i].second.contacts = manifolds[i].second.contacts
                /\ manifolds'[i].second.friction = manifolds[i].second.friction
                /\ manifolds'[i].second.obsolete = manifolds[i].second.obsolete

\* C12 (handles survive growth): after every call the two body handles of
\* each manifold refer to the bodies at the two indices of the manifold's
\* key, and a call that relocates the body storage leaves the contacts and
\* their accumulated impulses as they are.
ManifoldHandlesSurvive == [][ManifoldHandlesStep]_vars

\* C12 witness: a body was added after the last step, the storage has moved
\* since the bodies of that step were added, and a manifold of that step
\* carries a positive normal impulse.
ManifoldHandlesSurviveWitness ==
    /\ pc = "idle"
    /\ steps >= 1
    /\ Len(aabbs) >= 2
    /\ Len(aabbs) < Len(bodies)
    /\ handles[Len(aabbs)] # bodiesData + Len(aabbs) - 1
    /\ \E contact \in AllContacts : contact.normalImpulse > 0

ClearStep ==
    clears' = clears + 1 =>
        /\ bodies' = << >>
        /\ manifolds' = << >>
        /\ contactPairs' = << >>
        /\ endpoints' = << >>

\* C13 (clear postcondition): right after clear the body sequence, the
\* manifold array, the key map and the endpoint list of the broad phase are
\* empty.
ClearPostcondition == [][ClearStep]_vars

\* The pairs that a world constructed at the last clear and given the same
\* calls since reports in its update of the bodies, in order
FreshReported ==
    sweepAxis(bodies, aabbs, freshEndpoints, 1,
              [active  |-> << >>,
               mapping |-> [i \in 1..Len(bodies) |-> 0],
               pairs   |-> << >>,
               ok      |-> TRUE]).pairs

\* C14 (clear and refill): in every update after a clear the broad phase
\* reports the pairs that a freshly constructed world given the same calls
\* reports, in the same order.
ClearRefillEquivalent ==
    pc = "callbacks" => reported = FreshReported

\* C16 (feature-pair canonicalization): in every collision point returned
\* by getBoxBoxCollision the second feature of the pair is not less than
\* the first, geometry index compared first, edge index second.
FeaturePairCanonical ==
    narrow.call = "returned" =>
        \A k \in 1..Len(narrow.points) :
            \/ narrow.points[k].featurePair[1].geometry
                  < narrow.points[k].featurePair[2].geometry
            \/ /\ narrow.points[k].featurePair[1].geometry
                     = narrow.points[k].featurePair[2].geometry
               /\ narrow.points[k].featurePair[1].edge
                     <= narrow.points[k].featurePair[2].edge

\* Box B is the reference box, one returned point was made by clipping
\* (its features are of both boxes) and the other is a vertex of the
\* incident edge (both features of one box).
FeaturePairCanonicalWitness ==
    /\ narrow.call = "returned"
    /\ Len(narrow.points) = 2
    /\ narrow.points[1].clipBoxIndex = 1
    /\ \E k \in 1..2 :
          /\ narrow.points[k].featurePair[1].geometry
                # narrow.points[k].featurePair[2].geometry
          /\ narrow.points[3 - k].featurePair[1].geometry
                = narrow.points[3 - k].featurePair[2].geometry

\* The denominator of getEffectiveMass
InvEffectiveMass(bodyA, bodyB, armA, armB, direction) ==
    bodyA.invMass + bodyB.invMass +
    dot(VAdd(crossSV(FMul(bodyA.invInertia, cross(armA, direction)), armA),
             crossSV(FMul(bodyB.invInertia, cross(armB, direction)), armB)),
        direction)

\* The denominators of the three effective masses of a contact: along the
\* normal and the tangent as prepareToSolve computes them, and along the
\* transformed normal as solvePositions computes it.
ContactDenominators(contact, bodyA, bodyB) ==
    LET t == getTransformedContact(contact, bodyA, bodyB)
    IN  << InvEffectiveMass(bodyA, bodyB,
                            VSub(contact.point.position, bodyA.position),
                            VSub(contact.point.position, bodyB.position),
                            contact.point.normal),
           InvEffectiveMass(bodyA, bodyB,
                            VSub(contact.point.position, bodyA.position),
                            VSub(contact.point.position, bodyB.position),
                            crossVS(contact.point.normal, SCALE)),
           InvEffectiveMass(bodyA, bodyB,
                            VSub(t.clippedPoint, bodyA.position),
                            VSub(t.clippedPoint, bodyB.position),
                            t.normal) >>

ManifoldMassSafe(manifold, bodyA, bodyB) ==
    /\ ~(isStatic(bodyA) /\ isStatic(bodyB))
    /\ bodyA.invMass + bodyB.invMass > 0
    /\ \A k \in 1..Len(manifold.contacts) :
          /\ \A d \in 1..3 :
                ContactDenominators(manifold.contacts[k], bodyA, bodyB)[d] # 0
          /\ Abs(manifold.contacts[k].normalMass) < INF
          /\ Abs(manifold.contacts[k].tangentMass) < INF

\* C17 (effective-mass safety): every manifold joins two bodies of which at
\* least one is dynamic, so the sum of the inverse masses is positive and
\* the denominators of the effective masses in prepareToSolve and
\* solvePositions are not zero.
EffectiveMassSafe ==
    \A i \in 1..Len(manifolds) :
        ManifoldMassSafe(
            manifolds[i].second,
            bodies[BodyIndex(manifolds[i].second.bodyA, bodiesData) + 1],
            bodies[BodyIndex(manifolds[i].second.bodyB, bodiesData) + 1])

\* Two overlapping static bodies are in the world together with a manifold
\* that joins a static and a dynamic body and has been solved.
EffectiveMassSafeWitness ==
    /\ pc = "idle"
    /\ steps >= 1
    /\ \E i, j \in 1..Len(bodies) :
          /\ i < j
          /\ isStatic(bodies[i])
          /\ isStatic(bodies[j])
          /\ Len(aabbs) >= j
          /\ OverlapOnX(i - 1, j - 1)
          /\ OverlapOnY(i - 1, j - 1)
    /\ \E i \in 1..Len(manifolds) :
          /\ isStatic(bodies[BodyIndex(manifolds[i].second.bodyA, bodiesData) + 1])
          /\ \E k \in 1..Len(manifolds[i].second.contacts) :
                manifolds[i].second.contacts[k].normalMass > 0

\* The four penetrations of step 1 for the arguments of a call, in the
\* order A.x, A.y, B.x, B.y
ArgPenetrations(args) ==
    LET mats == << rotationMat(args.rotations[1]), rotationMat(args.rotations[2]) >>
        invRotations == << getTransposed(mats[1]), getTransposed(mats[2]) >>
    IN  AxisPenetrations(invRotations,
                         RelRotations(MMulM(invRotations[1], mats[2])),
                         args.halfSizes,
                         VSub(args.positions[2], args.positions[1]))

\* The axis of the clip box along which the local contact normal of a
\* collision point lies
NormalAxis(point) ==
    IF Abs(point.localContactNormal.x) > Abs(point.localContactNormal.y)
    THEN 0 ELSE 1

\* The axis at position c of the order A.x, A.y, B.x, B.y has a penetration
\* no other axis goes below and every earlier axis exceeds.
FirstOfMinimum(pens, c) ==
    /\ \A j \in 1..4 : pens[c] <= pens[j]
    /\ \A j \in 1..(c - 1) : pens[j] > pens[c]

ReferenceAxisOf(args, points) ==
    IF \E j \in 1..4 : ArgPenetrations(args)[j] < 0
    THEN points = << >>
    ELSE \A k \in 1..Len(points) :
            FirstOfMinimum(ArgPenetrations(args),
                           2 * points[k].clipBoxIndex + NormalAxis(points[k]) + 1)

\* C19 (reference-axis selection): getBoxBoxCollision returns no point when
\* one of the four penetrations is negative; otherwise the points it
\* returns are clipped against the box and axis of the least penetration,
\* the first of equal ones in the order A.x, A.y, B.x, B.y.
ReferenceAxisSelection ==
    narrow.call = "returned" => ReferenceAxisOf(narrow.args, narrow.points)

\* Two points were returned for boxes whose least penetration is the same
\* along an axis of A and an axis of B.
ReferenceAxisSelectionWitness ==
    /\ narrow.call = "returned"
    /\ Len(narrow.points) = 2
    /\ \E a \in 1..2, b \in 3..4 :
          /\ ArgPenetrations(narrow.args)[a] = ArgPenetrations(narrow.args)[b]
          /\ \A j \in 1..4 :
                ArgPenetrations(narrow.args)[a] <= ArgPenetrations(narrow.args)[j]

\* A call of clipEdgeByPlane has returned
Clipped == narrow.call \in { "clipped", "clippedAgain" }

\* The call met a sign change: one source point is in the negative
\* half-space of the plane, the other strictly in the positive one, and a
\* new point was written after the kept one.
SignChange ==
    /\ Clipped
    /\ Len(narrow.target) = 2
    /\ \E k \in 1..2 :
          /\ getDistance(narrow.args.clipPlane, narrow.args.source[k].position) <= 0
          /\ getDistance(narrow.args.clipPlane, narrow.args.source[3 - k].position) > 0

\* The source point in the negative half-space, and the one in the positive
NegativeIndex ==
    CHOOSE k \in 1..2 :
        getDistance(narrow.args.clipPlane, narrow.args.source[k].position) <= 0

PositiveIndex == 3 - NegativeIndex

ClipFeature == GeometryFeature(narrow.args.clipBody, narrow.args.clipAxisInd)

\* C20 (clipping feature tags) as stated: at a sign change the new vertex
\* has the feature pair of the source vertex in the negative half-space with
\* one of the two features replaced by the clip box index and the clipping
\* edge index.
ClipTagsFromNegative ==
    SignChange =>
        \E s \in 1..2 :
            narrow.target[2].featurePair =
                [narrow.args.source[NegativeIndex].featurePair EXCEPT
                    ![s] = ClipFeature]

\* C20 amended: at a sign change the new vertex has the feature pair of the
\* source vertex in the positive half-space, with the feature at the
\* position of that vertex in the edge replaced by the clip box index and
\* the clipping edge index; the feature at the position of the vertex in
\* the negative half-space is the one kept.
ClipTagsFromPositive ==
    SignChange =>
        /\ narrow.target[2].featurePair[PositiveIndex] = ClipFeature
        /\ narrow.target[2].featurePair[NegativeIndex]
              = narrow.args.source[PositiveIndex].featurePair[NegativeIndex]

\* The second clip met a sign change on an edge whose first point is out:
\* the new vertex keeps a feature the vertex in the negative half-space does
\* not have.
ClipTagsFromPositiveWitness ==
    /\ narrow.call = "clippedAgain"
    /\ SignChange
    /\ PositiveIndex = 1
    /\ \A s \in 1..2 :
          narrow.target[2].featurePair[NegativeIndex]
             # narrow.args.source[NegativeIndex].featurePair[s]

\* The feature pair with the geometry indices of the two boxes exchanged,
\* ordered again
ExchangedFeaturePair(featurePair) ==
    OrderedFeaturePair(
        << GeometryFeature(1 - featurePair[1].geometry, featurePair[1].edge),
           GeometryFeature(1 - featurePair[2].geometry, featurePair[2].edge) >>)

\* The point q of the swapped call is the point p of the call seen with the
\* boxes exchanged.
SamePointSwapped(p, q) ==
    /\ q.position = p.position
    /\ q.penetration = p.penetration
    /\ q.normal = VNeg(p.normal)
    /\ q.featurePair = ExchangedFeaturePair(p.featurePair)

\* C18 (narrow-phase symmetry): getBoxBoxCollision called with the two
\* boxes swapped returns as many points as the call, each point of the call
\* at the same position and with the same penetration, the normal negated
\* and the feature pair that of the call with the geometry indices
\* exchanged.
NarrowPhaseSymmetric ==
    narrow.call = "swapped" =>
        /\ Len(narrow.swapped) = Len(narrow.points)
        /\ \A k \in 1..Len(narrow.points) :
              \E j \in 1..Len(narrow.swapped) :
                  SamePointSwapped(narrow.points[k], narrow.swapped[j])

\* The least of the four penetrations is not shared by an axis of A and an
\* axis of B, so both calls take the same box as the reference.
ReferenceUnique(args) ==
    ~ \E a \in 1..2, b \in 3..4 :
          /\ ArgPenetrations(args)[a] = ArgPenetrations(args)[b]
          /\ \A j \in 1..4 : ArgPenetrations(args)[a] <= ArgPenetrations(args)[j]

\* The axis of the least penetration (the first one in the order A.x, A.y,
\* B.x, B.y), as a world vector
ReferenceAxis(args) ==
    LET c == CHOOSE k \in 1..4 : FirstOfMinimum(ArgPenetrations(args), k)
    IN  MCol(rotationMat(args.rotations[((c - 1) \div 2) + 1]), (c - 1) % 2)

\* The offset of the centres is not perpendicular to the reference axis, so
\* the axis has a side that faces the other box.
ReferenceFacing(args) ==
    dot(ReferenceAxis(args), VSub(args.positions[2], args.positions[1])) # 0

\* C18 amended: for every pair of boxes whose least penetration is not
\* shared by an axis of A and an axis of B and whose centre offset is not
\* perpendicular to the axis of least penetration, getBoxBoxCollision with
\* the boxes swapped returns the same number of points, at the same
\* positions and with the same penetrations, the normal negated
\* and the feature pairs equal after the exchange of the geometry indices
\* and canonicalization.
NarrowPhaseSymmetricSameReference ==
    /\ narrow.call = "swapped"
    /\ ReferenceUnique(narrow.args)
    /\ ReferenceFacing(narrow.args)
    => /\ Len(narrow.swapped) = Len(narrow.points)
       /\ \A k \in 1..Len(narrow.points) :
             \E j \in 1..Len(narrow.swapped) :
                 SamePointSwapped(narrow.points[k], narrow.swapped[j])

\* Both calls returned two points for a rotated box B that is the reference
\* box, called first as box 1 and then as box 0.
NarrowPhaseSymmetricSameReferenceWitness ==
    /\ narrow.call = "swapped"
    /\ ReferenceUnique(narrow.args)
    /\ ReferenceFacing(narrow.args)
    /\ narrow.args.rotations[2] # 0
    /\ Len(narrow.points) = 2
    /\ narrow.points[1].clipBoxIndex = 1
    /\ narrow.swapped[1].clipBoxIndex = 0
    /\ narrow.points[1].featurePair # narrow.points[2].featurePair

\* The AABBs of the bodies with the indices i and j touch on the sweep
\* axis: one ends at the coordinate at which the other begins.
TouchOnX(i, j) ==
    \/ aabbs[i + 1].max.x = aabbs[j + 1].min.x
    \/ aabbs[j + 1].max.x = aabbs[i + 1].min.x

\* The endpoint list is in the order of the sweep: coordinate ascending, an
\* end event before a start event of the same coordinate.
EndpointsOrdered ==
    \A k \in 1..(Len(endpoints) - 1) :
        \/ endpoints[k].position < endpoints[k + 1].position
        \/ /\ endpoints[k].position = endpoints[k + 1].position
           /\ (endpoints[k].isStart => endpoints[k + 1].isStart)

\* C21 (touching on the sweep axis): after the sweep the endpoint list is in
\* ascending order of the coordinate with end events before start events
\* of the same coordinate, and no reported pair is of two bodies of which
\* one's AABB ends on x where the other's begins, whatever their extents
\* on y.
TouchingNotReported ==
    pc = "callbacks" =>
        /\ EndpointsOrdered
        /\ \A k \in 1..Len(reported) : ~TouchOnX(reported[k][1], reported[k][2])

\* A sweep has passed two bodies that touch on x, overlap on y and are not
\* both static.
TouchingNotReportedWitness ==
    /\ pc = "callbacks"
    /\ \E i, j \in BodyIndices :
          /\ i # j
          /\ aabbs[i + 1].max.x = aabbs[j + 1].min.x
          /\ OverlapOnY(i, j)
          /\ ~BothStatic(i, j)

\* The positions in the endpoint list of the start (start = TRUE) or end
\* entries of the body with the index i
EntriesOf(i, start) ==
    { k \in 1..Len(endpoints) :
        endpoints[k].index = i /\ endpoints[k].isStart = start }

\* C22 (endpoint list invariant): after every BroadPhase::update with N
\* bodies the endpoint list has exactly 2N entries, one start and one end
\* entry for every body index 0..N-1 and none for any other index.
EndpointListExact ==
    pc = "callbacks" =>
        /\ Len(endpoints) = 2 * Len(bodies)
        /\ \A i \in BodyIndices :
              /\ Cardinality(EntriesOf(i, TRUE)) = 1
              /\ Cardinality(EntriesOf(i, FALSE)) = 1
        /\ \A k \in 1..Len(endpoints) : endpoints[k].index \in BodyIndices

\* C30 (index width): for every body count that addBody accepts, the bound
\* of the loop of BroadPhase::update that adds the endpoint entries, cast to
\* a signed 32-bit integer, is the body count and not a negative number,
\* and after the update every body has an endpoint entry.
IndexWidthSafe ==
    /\ ToInt32(Len(bodies)) = Len(bodies)
    /\ pc = "callbacks" =>
          \A i \in BodyIndices : EntriesOf(i, TRUE) # {} /\ EntriesOf(i, FALSE) # {}

\* The active set, the mapping and the pairs of the last sweep after its
\* first k endpoints
SweepAfter(k) ==
    sweepAxis(bodies, aabbs, SubSeq(endpoints, 1, k), 1,
              [active  |-> << >>,
               mapping |-> [i \in 1..Len(bodies) |-> 0],
               pairs   |-> << >>,
               ok      |-> TRUE])

ActiveSet(k) == { SweepAfter(k).active[s] : s \in 1..Len(SweepAfter(k).active) }

\* Every body of the active set is in the slot the mapping records for it
SlotsRecorded(k) ==
    \A s \in 1..Len(SweepAfter(k).active) :
        SweepAfter(k).mapping[SweepAfter(k).active[s] + 1] = s - 1

\* The k-th endpoint, an end event, meets its own body in the active set
\* and removes it and nothing else.
EndRemovesOwn(k) ==
    /\ endpoints[k].index \in ActiveSet(k - 1)
    /\ ActiveSet(k) = ActiveSet(k - 1) \ { endpoints[k].index }
    /\ Len(SweepAfter(k).active) = Len(SweepAfter(k - 1).active) - 1

\* C29 (active-set bookkeeping): in every sweep the start event of a body
\* comes before its end event, after every event every body of the active
\* set satisfies activePoints[activeMapping[j]] = j, every end event removes
\* exactly its own body from a non-empty active set, and the active set is
\* empty when the sweep ends.
ActiveSetBookkeeping ==
    pc = "callbacks" =>
        /\ \A a, b \in 1..Len(endpoints) :
              /\ endpoints[a].index = endpoints[b].index
              /\ endpoints[a].isStart
              /\ ~endpoints[b].isStart
              => a < b
        /\ \A k \in 0..Len(endpoints) : SlotsRecorded(k)
        /\ \A k \in 1..Len(endpoints) : ~endpoints[k].isStart => EndRemovesOwn(k)
        /\ SweepAfter(Len(endpoints)).active = << >>
        /\ activePoints = << >>
        /\ sweepOk

\* An end event of the last sweep met two or more active bodies and removed
\* one that was not in the last slot, so that another body was moved.
ActiveSetBookkeepingWitness ==
    /\ pc = "callbacks"
    /\ \E k \in 1..Len(endpoints) :
          /\ ~endpoints[k].isStart
          /\ Len(SweepAfter(k - 1).active) >= 2
          /\ SweepAfter(k - 1).active[Len(SweepAfter(k - 1).active)] # endpoints[k].index

\* The contacts of the manifold array in dense order, each as << index of
\* the manifold, index of the contact in it >>
RECURSIVE ContactOrder(_, _)
ContactOrder(ms, k) ==
    IF k > Len(ms) THEN << >>
    ELSE [c \in 1..Len(ms[k].second.contacts) |-> << k, c >>]
         \o ContactOrder(ms, k + 1)

\* The manifolds and bodies after ContactPoint::solveVelocities of the one
\* contact at
VelocitySolved(st, at) ==
    LET m == st.ms[at[1]].second
        ia == BodyIndex(m.bodyA, bodiesData) + 1
        ib == BodyIndex(m.bodyB, bodiesData) + 1
        r == solveContactVelocities(m.contacts[at[2]], st.bs[ia], st.bs[ib], m.friction)
    IN  [ms |-> [st.ms EXCEPT ![at[1]].second.contacts[at[2]] = r.c],
         bs |-> [st.bs EXCEPT ![ia] = r.a, ![ib] = r.b]]

\* The manifolds and bodies after ContactPoint::solvePositions of the one
\* contact at
PositionSolved(st, at) ==
    LET m == st.ms[at[1]].second
        ia == BodyIndex(m.bodyA, bodiesData) + 1
        ib == BodyIndex(m.bodyB, bodiesData) + 1
        r == solveContactPositions(m.contacts[at[2]], st.bs[ia], st.bs[ib])
    IN  [ms |-> st.ms, bs |-> [st.bs EXCEPT ![ia] = r.a, ![ib] = r.b]]

\* Every contact of order solved once, one after the other, from the n-th on
RECURSIVE EachOnce(_, _, _, _)
EachOnce(st, order, n, velocity) ==
    IF n > Len(order) THEN st
    ELSE EachOnce(IF velocity THEN VelocitySolved(st, order[n])
                              ELSE PositionSolved(st, order[n]),
                  order, n + 1, velocity)

\* The number of passes of a phase in the trace of the running step
Passes(phase) == Cardinality({ k \in 1..Len(trace) : trace[k] = phase })

SameStance(bs1, bs2) ==
    \A i \in 1..Len(bs1) :
        bs1[i].position = bs2[i].position /\ bs1[i].rotation = bs2[i].rotation

IterationStep ==
    /\ pc = "solveVelocities" /\ pc' = pc =>
          /\ Passes("solveVelocities") < velocityIterations
          /\ [ms |-> manifolds', bs |-> bodies']
                = EachOnce([ms |-> manifolds, bs |-> bodies],
                           ContactOrder(manifolds, 1), 1, TRUE)
    /\ pc = "solveVelocities" /\ pc' # pc =>
          /\ Passes("solveVelocities") = velocityIterations
          /\ bodies' = bodies
          /\ manifolds' = manifolds
    /\ pc = "solvePositions" /\ pc' = pc =>
          /\ Passes("solvePositions") < positionIterations
          /\ [ms |-> manifolds', bs |-> bodies']
                = EachOnce([ms |-> manifolds, bs |-> bodies],
                           ContactOrder(manifolds, 1), 1, FALSE)
    /\ pc = "solvePositions" /\ pc' # pc =>
          /\ Passes("solvePositions") = positionIterations
          /\ bodies' = bodies
          /\ manifolds' = manifolds
    /\ pc = "solvePositions" /\ positionIterations = 0 => SameStance(bodies, bodies')

\* C23 (iteration passes): solveVelocities(n) makes exactly n passes, each
\* of which solves every contact of every manifold exactly once in the
\* order of the dense array; solvePositions(n) does the same, and with
\* n = 0 it changes no body position or rotation.
IterationPasses == [][IterationStep]_vars

\* The second velocity pass of a step is over, and the array holds two
\* manifolds or more, one of them with two contacts.
IterationPassesWitness ==
    /\ pc = "solveVelocities"
    /\ Passes("solveVelocities") = 2
    /\ Len(manifolds) >= 2
    /\ \E i \in 1..Len(manifolds) : Len(manifolds[i].second.contacts) = 2

\* The manifold at position j of the array after the step: if a manifold
\* of the same pair was in the array before the step its friction is the
\* one that manifold had, otherwise it is the square root of the product of
\* the friction coefficients of the two bodies of the pair.
FrictionKept(j) ==
    IF \E i \in 1..Len(manifolds) : manifolds[i].first = manifolds'[j].first
    THEN \A i \in 1..Len(manifolds) :
            manifolds[i].first = manifolds'[j].first
            => manifolds'[j].second.friction = manifolds[i].second.friction
    ELSE manifolds'[j].second.friction
            = FSqrt(FMul(bodies'[BodyIndex(manifolds'[j].second.bodyA, bodiesData') + 1].friction,
                         bodies'[BodyIndex(manifolds'[j].second.bodyB, bodiesData') + 1].friction))

FrictionStep == \A j \in 1..Len(manifolds') : FrictionKept(j)

\* C24 (composite friction): the friction of a manifold is computed when
\* the manifold is constructed, and no step of update, prepareToSolve,
\* solveVelocities, solvePositions or onBodiesReallocation changes it; a
\* pair gets a newly computed friction only with a new manifold.
CompositeFrictionFixed == [][FrictionStep]_vars

\* Two steps have run and the body storage has moved; the array holds two
\* manifolds, one of them of two bodies of different friction.
CompositeFrictionFixedWitness ==
    /\ pc = "idle"
    /\ steps >= 2
    /\ handles # << >>
    /\ handles[1] # bodiesData
    /\ Len(manifolds) >= 2
    /\ \E i \in 1..Len(manifolds) :
          /\ bodies[BodyIndex(manifolds[i].second.bodyA, bodiesData) + 1].friction
                # bodies[BodyIndex(manifolds[i].second.bodyB, bodiesData) + 1].friction
          /\ manifolds[i].second.friction > 0

SameVelocities(bs1, bs2) ==
    /\ Len(bs1) = Len(bs2)
    /\ \A i \in 1..Len(bs1) :
          /\ bs1[i].linearVelocity = bs2[i].linearVelocity
          /\ bs1[i].angularVelocity = bs2[i].angularVelocity

PositionSolveStep ==
    pc = "solvePositions" =>
        /\ SameVelocities(bodies, bodies')
        /\ Len(manifolds') = Len(manifolds)
        /\ \A i \in 1..Len(manifolds) :
              /\ Len(manifolds'[i].second.contacts) = Len(manifolds[i].second.contacts)
              /\ \A c \in 1..Len(manifolds[i].second.contacts) :
                    SameImpulses(manifolds'[i].second.contacts[c],
                                 manifolds[i].second.contacts[c])

\* C25 (position solve frame): solvePositions leaves the linear and the
\* angular velocity of every body and the accumulated normal and tangent
\* impulse of every contact unchanged.
PositionSolveFrame == [][PositionSolveStep]_vars

\* A position pass has moved a body: a moving body of a manifold is not
\* where integratePositions put it.
PositionSolveFrameWitness ==
    /\ pc = "solvePositions"
    /\ Passes("solvePositions") >= 1
    /\ \E i \in 1..Len(manifolds) :
          LET a == bodies[BodyIndex(manifolds[i].second.bodyA, bodiesData) + 1]
              contact == manifolds[i].second.contacts[1]
          IN  /\ a.linearVelocity # ZeroVec
              /\ a.position # VAdd(VSub(contact.point.position, contact.offsetA),
                                   VScale(timeStep, a.linearVelocity))

\* The points getBoxBoxCollision returns for the bodies of a reported pair
PairPoints(pair) ==
    getBoxBoxCollision(
        << bodies[pair[1] + 1].position, bodies[pair[2] + 1].position >>,
        << bodies[pair[1] + 1].rotation, bodies[pair[2] + 1].rotation >>,
        << bodies[pair[1] + 1].halfSize, bodies[pair[2] + 1].halfSize >>)

\* The manifolds of a pair that were created or updated in this update
Touched(pair) ==
    { i \in 1..Len(manifolds) :
        /\ manifolds[i].first = PairKey(pair[1], pair[2])
        /\ ~manifolds[i].second.obsolete }

\* The pair was handled by CollisionSystem::onCollision: without a point
\* the solver was not called for it, with points it holds a manifold of as
\* many contacts.
PairHandled(pair) ==
    /\ Len(PairPoints(pair)) \in 0..MAX_POINTS
    /\ IF Len(PairPoints(pair)) = 0
       THEN Touched(pair) = {}
       ELSE \E i \in Touched(pair) :
               Len(manifolds[i].second.contacts) = Len(PairPoints(pair))

\* C26 (contact count bounds): getBoxBoxCollision returns at most MAX_POINTS
\* points for every reported pair, the solver callback is made only for a
\* pair with at least one point, and every manifold of the cache has
\* between 1 and MAX_POINTS contacts.
ContactCountBounds ==
    /\ \A i \in 1..Len(manifolds) :
          Len(manifolds[i].second.contacts) \in 1..MAX_POINTS
    /\ pc = "callbacks" =>
          \A k \in 1..(next - 1) : PairHandled(reported[k])

\* All callbacks of an update are done; one reported pair had no point, and
\* the cache holds a manifold of one contact and a manifold of two.
ContactCountBoundsWitness ==
    /\ pc = "callbacks"
    /\ next > Len(reported)
    /\ \E k \in 1..Len(reported) : PairPoints(reported[k]) = << >>
    /\ \E i \in 1..Len(manifolds) : Len(manifolds[i].second.contacts) = 1
    /\ \E i \in 1..Len(manifolds) : Len(manifolds[i].second.contacts) = 2

\* The manifolds that are not obsolete, as the set of their positions
Survivors == { i \in 1..Len(manifolds) : ~manifolds[i].second.obsolete }

\* A removal: every manifold that is not obsolete is in the array afterwards
\* with its key and its content (body pair, contacts with their impulses,
\* friction), and the array holds no other manifold.
RemovalStep ==
    pc = "finishManifoldsUpdate" =>
        /\ Len(manifolds') = Cardinality(Survivors)
        /\ \A i \in Survivors :
              \E j \in 1..Len(manifolds') :
                  /\ manifolds'[j].first = manifolds[i].first
                  /\ manifolds'[j].second = manifolds[i].second

\* C27 (removal frame): finishManifoldsUpdate changes the content of no
\* manifold that stays in the cache; only its position may change.
RemovalFrame == [][RemovalStep]_vars

\* C27 witness: a removal is done that took a manifold out of the array and
\* left one whose contact carries a positive normal impulse.
RemovalFrameWitness ==
    /\ pc = "prepareToSolve"
    /\ removed # {}
    /\ \E i \in 1..Len(manifolds) :
          \E k \in 1..Len(manifolds[i].second.contacts) :
              manifolds[i].second.contacts[k].normalImpulse > 0

\* An iteration of the removal loop advances the index and keeps the array,
\* or keeps the index and shortens the array by one: the number of
\* manifolds from the index to the end falls by one.
RemovalProgressStep ==
    (pc = "finishManifoldsUpdate" /\ pc' = pc) =>
        /\ Len(manifolds') - iter' = Len(manifolds) - iter - 1
        /\ \/ iter' = iter + 1 /\ Len(manifolds') = Len(manifolds)
           \/ iter' = iter /\ Len(manifolds') = Len(manifolds) - 1

\* C28 (step termination): a doStep that has begun returns, whatever the
\* bodies and the obsolete flags of the manifolds; the removal loop of
\* finishManifoldsUpdate ends, each of its iterations advancing the index
\* or shortening the array.
StepTermination ==
    /\ (pc # "idle") ~> (pc = "idle")
    /\ [][RemovalProgressStep]_vars

\* C28 witness: a second step has returned whose removal loop took every
\* manifold of the array out.
StepTerminationWitness ==
    /\ pc = "idle"
    /\ steps >= 2
    /\ removed # {}
    /\ manifolds = << >>

====
